---- MODULE Spec2Model ----
(***************************************************************************)
(* Model of the resumable clone pipeline of src/backend/clone.py: the      *)
(* trigger handler clone_raw_database, the orchestrator loop               *)
(* _clone_database_impl, the CloneStore files of one operation, the        *)
(* in-memory registry CLONE_OPERATIONS and the background completion       *)
(* callback.  The upstream service is a cursor chain of pages.             *)
(*                                                                         *)
(* Python's None is the empty sequence <<>> for optional records and       *)
(* numbers-in-a-box, the string "None" for optional strings and 0 for an   *)
(* absent cursor token.                                                    *)
(***************************************************************************)
EXTENDS Integers, Sequences, FiniteSets, TLC

----------------------------------------------------------------------------
(* Bounds of the model *)

\* trigger requests that start a loop in one behaviour
MaxReq == 3

\* process terminations in one behaviour
MaxCrash == 1

\* page fetches that end in an error in one behaviour
MaxFail == 1

\* part_max_bytes of line 93 (100 MiB), counted in event lines of one length
PartMaxLines == 2

\* characters of a Retry-After header value
MaxHeaderLen == 2

----------------------------------------------------------------------------
(* Values *)

None == <<>>

Some(x) == <<x>>

NoneStr == "None"

NoCursor == 0

\* float("inf") of line 371
Inf == <<>>

\* the ceiling of line 249
MAX_BACKGROUND == 2

\* lines 32-34
HTTP_RETRY_STATUS == {429, 502, 503, 504}

HTTP_MAX_ATTEMPTS == 6

HTTP_BACKOFF_CAP == 30

----------------------------------------------------------------------------
(* Releases: JSON objects as the sequence of their (key, value) members in  *)
(* the order the upstream response lists them.                              *)

\* lexicographic rank of the member names, as sort_keys orders them
KeyRank(k) == CASE k = "ocid" -> 1 [] k = "title" -> 2 [] OTHER -> 3

RECURSIVE InsertMember(_, _)
InsertMember(m, sorted) ==
    IF sorted = <<>> THEN <<m>>
    ELSE IF KeyRank(m[1]) <= KeyRank(Head(sorted)[1])
         THEN <<m>> \o sorted
         ELSE <<Head(sorted)>> \o InsertMember(m, Tail(sorted))

RECURSIVE SortKeys(_)
SortKeys(obj) ==
    IF obj = <<>> THEN <<>> ELSE InsertMember(Head(obj), SortKeys(Tail(obj)))

\* json.dumps(obj, sort_keys=True, separators=(",", ":")): the members in key order
CanonicalNoSort(obj) == obj

_canonical_json_bytes(obj) == SortKeys(obj)

\* sha256 is taken as collision free: the digest stands for the bytes it digests
_content_hash_sha256(obj) == <<"sha256", _canonical_json_bytes(obj)>>

\* rel.get(name)
RECURSIVE Get(_, _)
Get(obj, name) ==
    IF obj = <<>> THEN NoneStr
    ELSE IF Head(obj)[1] = name THEN Head(obj)[2] ELSE Get(Tail(obj), name)

RelA == << <<"ocid", "x">>, <<"title", "p">> >>

\* the content of RelA with its members listed in another order
RelA2 == << <<"title", "p">>, <<"ocid", "x">> >>

\* the identifier of RelA with other content
RelB == << <<"ocid", "x">>, <<"title", "q">> >>

RelC == << <<"ocid", "y">>, <<"title", "p">> >>

RelD == << <<"ocid", "y">>, <<"title", "q">> >>

----------------------------------------------------------------------------
(* The upstream: page i is served for cursor i-1; nextCursor is the page's  *)
(* explicit field and linkCursor the cursor inside its links.next url       *)
(* (NoCursor when the field or the link is absent).                         *)

Page(rels, nextCursor, linkCursor) ==
    [releases |-> rels, nextCursor |-> nextCursor, linkCursor |-> linkCursor]

\* three pages, the second reached through nextCursor, the third through links.next
ChainThree ==
    << Page(<<RelA, RelB>>, 1, 1), Page(<<RelA2, RelC>>, NoCursor, 2), Page(<<RelD>>, NoCursor, NoCursor) >>

\* two pages and then an empty page that ends the stream
ChainEmptyEnd ==
    << Page(<<RelA>>, 1, NoCursor), Page(<<RelC, RelA2>>, 2, 2), Page(<<>>, NoCursor, NoCursor) >>

\* a single page without a next cursor
ChainOne == << Page(<<RelA, RelA2>>, NoCursor, NoCursor) >>

Upstreams == {ChainThree, ChainEmptyEnd, ChainOne}

\* the values of updatedTo the upstream may echo, as (in uri, in links.next)
Echoes == {<<"t1", "t2">>, <<NoneStr, "t2">>}

\* a single release on a single page
ChainTiny == << Page(<<RelA>>, NoCursor, NoCursor) >>

----------------------------------------------------------------------------
(* State *)

VARIABLES
    upstream,   \* the page chain the upstream serves in this behaviour
    clock,      \* datetime.utcnow(), in seconds
    registry,   \* CLONE_OPERATIONS: operation id -> entry
    disk,       \* data/clones: operation id -> the files of its directory
    runs,       \* the _clone_database_impl coroutines alive: run id -> frame
    lastResp,   \* the response the last step sent, NoResponse if it sent none
    nreq,       \* number of trigger requests that started a loop
    ncrash,     \* number of process terminations
    nfail,      \* number of page fetches that raised
    sent,       \* per operation, the upstream request issued last (history)
    frozen,     \* per operation, the first value fixed_updated_to took (history)
    hist        \* per operation, what happened to it (history)

vars == <<upstream, clock, registry, disk, runs, lastResp, nreq, ncrash, nfail, sent, frozen, hist>>

\* the empty mapping
Empty == [x \in {} |-> None]

\* d[k] = v, a dict assignment
Put(d, k, v) == [x \in DOMAIN d \cup {k} |-> IF x = k THEN v ELSE d[x]]

Drop(d, k) == [x \in DOMAIN d \ {k} |-> d[x]]

----------------------------------------------------------------------------
(* CloneStore *)

\* events is the sequence of the files part-000001.ndjson, part-000002.ndjson, ...,
\* each the sequence of its lines; appended is history: the events in the order of
\* the writes
EmptyDir ==
    [ status |-> None, checkpoint |-> None, manifest |-> None,
      status_tmp |-> None, checkpoint_tmp |-> None,
      objects |-> Empty, events |-> <<>>, writes |-> <<>>, appended |-> <<>> ]

\* CloneStore.__init__: _safe_mkdir(objects_dir), _safe_mkdir(events_dir)
CloneStoreInit(d, op) == IF op \in DOMAIN d THEN d ELSE Put(d, op, EmptyDir)

\* store.base_dir.exists()
BaseDirExists(d, op) == op \in DOMAIN d

\* a file that holds a prefix of the JSON text of payload: Some(payload) is the
\* file with the whole text
Torn(payload) == <<payload, "torn">>

\* json.load raises on a torn file
Loads(file) == Len(file) = 1

\* lines 120-127: None when the file is absent or does not parse
read_status(d, op) == IF Loads(d[op].status) THEN d[op].status ELSE None

LoadNoCheckpoint(d, op) == None

\* lines 102-110: {} when the file is absent or does not parse
load_checkpoint(d, op) == IF Loads(d[op].checkpoint) THEN d[op].checkpoint ELSE None

InPlacePath(name) == name

\* line 55: status.json.tmp, checkpoint.json.tmp
_tmp_path(name) == IF name = "status" THEN "status_tmp" ELSE "checkpoint_tmp"

\* line 56: the temporary file is opened for writing, and written in part
open_w(d, op, name, payload) == [d EXCEPT ![op][_tmp_path(name)] = Torn(payload)]

\* line 57, and the close of the with statement
json_dump(d, op, name, payload) == [d EXCEPT ![op][_tmp_path(name)] = Some(payload)]

\* line 58: tmp.replace(path)
replace(d, op, name) ==
    IF _tmp_path(name) = name THEN d
    ELSE [d EXCEPT ![op][name] = d[op][_tmp_path(name)], ![op][_tmp_path(name)] = None]

\* lines 54-58
_atomic_write_json(d, op, name, payload) ==
    replace(json_dump(open_w(d, op, name, payload), op, name, payload), op, name)

save_status(d, op, payload) == _atomic_write_json(d, op, "status", payload)

save_checkpoint(d, op, cp) == _atomic_write_json(d, op, "checkpoint", cp)

FinalizeNothing(d, op, m) == d

\* lines 148-150
finalize_manifest(d, op, m) == [d EXCEPT ![op].manifest = Some(m)]

ObjectNeverExists(d, op, h) == FALSE

\* obj_path.exists()
ObjectExists(d, op, h) == h \in DOMAIN d[op].objects

WriteNothing(d, op, h, obj) == d

WriteAlways(d, op, h, obj) ==
    [d EXCEPT ![op].objects = Put(@, h, _canonical_json_bytes(obj)),
              ![op].writes = Append(@, h)]

\* write_object_if_missing: the store after the call; writes logs each file creation
write_object_if_missing(d, op, h, obj) ==
    IF ObjectExists(d, op, h) THEN d
    ELSE [d EXCEPT ![op].objects = Put(@, h, _canonical_json_bytes(obj)),
                   ![op].writes = Append(@, h)]

\* lines 96-100, on the part_index and part_bytes the store object of a frame holds
_rotate_if_needed(f) ==
    IF f.part_bytes >= PartMaxLines
    THEN [f EXCEPT !.part_index = @ + 1, !.part_bytes = 0]
    ELSE f

\* lines 144-145: open(current_events_path, "ab") and write the line
append_event(d, op, part_index, event) ==
    [d EXCEPT ![op].events = IF part_index <= Len(@)
                             THEN [@ EXCEPT ![part_index] = Append(@, event)]
                             ELSE Append(@, <<event>>),
              ![op].appended = Append(@, event)]

\* the event log read in the order of its parts
RECURSIVE Concat(_)
Concat(parts) == IF parts = <<>> THEN <<>> ELSE Head(parts) \o Concat(Tail(parts))

EventLog(d, op) == Concat(d[op].events)

----------------------------------------------------------------------------
(* Operation ids *)

\* hash(str(stages) + str(total)) % 10000, taken as distinct for distinct totals
Fingerprint(total) == total + 1

\* line 285: clone_<utc second>_<fingerprint>
GenerateOperationId(now, total) == <<now, Fingerprint(total)>>

\* an id of the generated form that a caller may name before any directory bears it
GuessedId(now) == GenerateOperationId(now, -1)

----------------------------------------------------------------------------
(* Registry *)

\* line 248
ActiveOps(reg) == Cardinality({op \in DOMAIN reg : ~reg[op].completed})

CeilingHitAnyKind(reg, background) == ActiveOps(reg) >= MAX_BACKGROUND

CeilingHitStrict(reg, background) == background /\ ActiveOps(reg) > MAX_BACKGROUND

\* line 249
CeilingHit(reg, background) == background /\ ActiveOps(reg) >= MAX_BACKGROUND

\* line 260
ShortCircuit(existing_status, force) ==
    /\ existing_status # None
    /\ existing_status[1].status = "completed"
    /\ ~force

RunningEntry(req) ==
    [ status |-> "running", completed |-> FALSE, error |-> NoneStr,
      total_requested |-> req.total, stages |-> req.stages ]

RunningStatus(op, req) ==
    [ operation_id |-> op, status |-> "running", total_requested |-> req.total,
      stages |-> req.stages, updatedFrom |-> req.updatedFrom,
      updatedTo |-> req.updatedTo ]

----------------------------------------------------------------------------
(* Frames of _clone_database_impl *)

\* the locals of one coroutine and the part counters of its store object (lines
\* 91-92); taken is history: the (page, release) pairs it cut
\* how the page fetch of the frame ended, with the status and the text of the
\* response it ended on
Fetch(kind, status, text) == [kind |-> kind, status |-> status, text |-> text]

NoFetch == Fetch("none", 0, "")

\* the frame of a loop; attempt and wait are the locals of the page fetch, gets
\* and sleeps count its client.get calls and its backoff sleeps; io is the
\* position inside _atomic_write_json, old the target file as the write found it;
\* raced says that an object appeared between the two checks of a write
NewFrame(op, req) ==
    [ op |-> op, background |-> req.background, total |-> req.total,
      updatedTo |-> req.updatedTo, updatedFrom |-> req.updatedFrom,
      stages |-> req.stages, pc |-> "start",
      cursor |-> NoCursor, pages |-> 0, received_raw |-> 0, events_written |-> 0,
      objects_written |-> 0, processed_total |-> 0, fixed_updated_to |-> NoneStr,
      fixed_updated_from |-> NoneStr, fixed_stages |-> NoneStr,
      remaining |-> Inf, data |-> None, page_releases |-> <<>>, i |-> 0,
      error |-> NoneStr, part_index |-> 1, part_bytes |-> 0, taken |-> {},
      attempt |-> 0, wait |-> 0, gets |-> 0, sleeps |-> 0, fetch |-> NoFetch,
      io |-> "none", old |-> None, raced |-> FALSE ]

\* a frame suspended at an await, or a task not yet scheduled: others may run
Suspended(f) ==
    \/ f.pc \in {"await", "callback"}
    \/ f.pc = "start" /\ f.background

\* some coroutine is inside a synchronous section
Busy == \E r \in DOMAIN runs : ~Suspended(runs[r])

\* run r may take its next step
MayStep(r) == r \in DOMAIN runs /\ (~Suspended(runs[r]) \/ ~Busy)

RunsOf(op) == {r \in DOMAIN runs : runs[r].op = op}

\* a loop of the operation is between its first and its last statement
LoopsOf(op) == {r \in RunsOf(op) : runs[r].pc # "callback"}

NoHist == [totals |-> {}, dirty |-> FALSE, killed |-> FALSE, ingested |-> {}]

HistOf(h, op) == IF op \in DOMAIN h THEN h[op] ELSE NoHist

\* history: a loop for op is started by a request asking for total; rerun says that
\* the operation had completed before
NoteStart(h, op, total, rerun) ==
    Put(h, op, [HistOf(h, op) EXCEPT !.totals = @ \cup {total}, !.dirty = @ \/ rerun])

----------------------------------------------------------------------------
(* clone_raw_database *)

Reply(code, kind, body) == [code |-> code, kind |-> kind, body |-> body]

NoBody == [detail |-> "none"]

\* the step sent no response
NoResponse == Reply(0, "none", NoBody)

\* lines 228-236: the query parameters of a trigger
RequestsWith(totals, tos, froms, stagess, ids) ==
    [ total : totals, updatedTo : tos, updatedFrom : froms, stages : stagess,
      background : BOOLEAN,
      operation_id : {None} \cup {Some(op) : op \in ids}, force : BOOLEAN ]

\* the triggers that name neither stages nor updatedFrom
Requests(totals, tos, ids) == RequestsWith(totals, tos, {NoneStr}, {NoneStr}, ids)

\* lines 263-282 and 284-306: register the operation and persist the running status
Register(req, op, d) ==
    /\ nreq < MaxReq
    /\ nreq' = nreq + 1
    /\ registry' = Put(registry, op, RunningEntry(req))
    /\ disk' = save_status(d, op, RunningStatus(op, req))
    /\ runs' = Put(runs, nreq + 1, NewFrame(op, req))
    /\ hist' = NoteStart(hist, op, req.total,
                          /\ read_status(d, op) # None
                          /\ read_status(d, op)[1].status = "completed")
    /\ lastResp' = IF req.background
                   THEN Reply(200, "background_queued", [operation_id |-> op])
                   ELSE NoResponse

\* the handler up to the point where the loop is started or the request is
\* answered; now is utcnow() of line 285, read for a generated id only
clone_raw_database(req, now) ==
    /\ ~Busy
    /\ UNCHANGED <<upstream, ncrash, nfail, sent, frozen>>
    /\ IF CeilingHit(registry, req.background)
       THEN /\ lastResp' = Reply(429, "too_many", NoBody)
            /\ UNCHANGED <<registry, disk, runs, hist, nreq, clock>>
       ELSE IF req.operation_id # None
       THEN LET op == req.operation_id[1]
                d1 == CloneStoreInit(disk, op)
            IN  /\ clock' = clock
                /\ IF ~BaseDirExists(d1, op)
                   THEN /\ lastResp' = Reply(404, "not_found", NoBody)
                        /\ disk' = d1
                        /\ UNCHANGED <<registry, runs, hist, nreq>>
                   ELSE IF ShortCircuit(read_status(d1, op), req.force)
                   THEN /\ lastResp' = Reply(200, "stored", read_status(d1, op)[1])
                        /\ disk' = d1
                        /\ UNCHANGED <<registry, runs, hist, nreq>>
                   ELSE Register(req, op, d1)
       ELSE LET op == GenerateOperationId(now, req.total)
            IN  /\ clock' = now
                /\ Register(req, op, CloneStoreInit(disk, op))

\* the seconds a generated id may carry next: the current one, or the next one once
\* an id of the current second exists (time passing is seen through ids only)
Now ==
    {clock} \cup {t \in {clock + 1} : \E op \in DOMAIN disk : op[1] = clock}

\* the handler when the save_status of line 297 raises (OSError): the id is
\* generated, the directory made and the registry entry set, no loop is started
SaveStatusRaises(req, now) ==
    /\ ~Busy
    /\ ~CeilingHit(registry, req.background)
    /\ req.operation_id = None
    /\ nfail < MaxFail
    /\ nfail' = nfail + 1
    /\ clock' = now
    /\ LET op == GenerateOperationId(now, req.total)
       IN  /\ registry' = Put(registry, op, RunningEntry(req))
           /\ disk' = CloneStoreInit(disk, op)
    /\ lastResp' = Reply(500, "internal_error", NoBody)
    /\ UNCHANGED <<upstream, runs, nreq, ncrash, sent, frozen, hist>>

----------------------------------------------------------------------------
(* clone_status *)

clone_status_memory_first(d, reg, op) ==
    IF op \in DOMAIN reg THEN Reply(200, "status", reg[op])
    ELSE IF op \in DOMAIN d /\ d[op].status # None THEN Reply(200, "status", d[op].status[1])
    ELSE Reply(404, "not_found", NoBody)

\* lines 520-529: the answer to a poll for op
clone_status(d, reg, op) ==
    IF op \in DOMAIN d /\ d[op].status # None
    THEN IF Loads(d[op].status) THEN Reply(200, "status", d[op].status[1])
         ELSE Reply(500, "internal_error", NoBody)
    ELSE IF op \notin DOMAIN reg THEN Reply(404, "not_found", NoBody)
    ELSE Reply(200, "status", reg[op])

\* a poll is a plain def endpoint: it runs on a worker thread, at any time
StatusPoll(op) ==
    /\ lastResp' = clone_status(disk, registry, op)
    /\ UNCHANGED <<upstream, clock, registry, disk, runs, nreq, ncrash, nfail, sent, frozen, hist>>

----------------------------------------------------------------------------
(* _clone_database_impl *)

InitialRemainingFromZero(total) == IF total >= 0 THEN Some(total) ELSE Inf

\* line 371
InitialRemaining(total) == IF total > 0 THEN Some(total) ELSE Inf

\* line 377
QuotaSatisfied(remaining) == remaining # Inf /\ remaining[1] <= 0

Min(a, b) == IF a <= b THEN a ELSE b

PageReleasesOne(releases, remaining) == SubSeq(releases, 1, 1)

\* lines 404-407
PageReleases(releases, remaining) ==
    IF remaining = Inf THEN releases
    ELSE SubSeq(releases, 1, Min(remaining[1], Len(releases)))

\* extract_query_param(url, "updatedTo") and extract_cursor(url) read one query
\* parameter of a url; a url is the record of its query parameters, None if absent
extract_query_param(url, name) ==
    IF url = None THEN NoneStr ELSE url[1][name]

extract_cursor(next_url) ==
    IF next_url = None THEN NoCursor ELSE next_url[1].cursor

\* the response body for a page: uri and links.next carry the echoed updatedTo
Response(page, uriTo, linkTo) ==
    [ releases |-> page.releases,
      nextCursor |-> page.nextCursor,
      uri |-> Some([updatedTo |-> uriTo]),
      links_next |-> IF page.linkCursor = NoCursor THEN None
                     ELSE Some([cursor |-> page.linkCursor, updatedTo |-> linkTo]) ]

\* what the upstream serves for a cursor: the page after it, empty past the end
Serve(cursor) ==
    IF cursor + 1 <= Len(upstream) THEN upstream[cursor + 1]
    ELSE Page(<<>>, NoCursor, NoCursor)

\* lines 392-395
DeriveUpdatedTo(fixed_updated_to, data) ==
    IF fixed_updated_to # NoneStr THEN fixed_updated_to
    ELSE IF extract_query_param(data.uri, "updatedTo") # NoneStr
         THEN extract_query_param(data.uri, "updatedTo")
         ELSE extract_query_param(data.links_next, "updatedTo")

NextCursorNoFallback(data) == data.nextCursor

\* lines 434-436
NextCursor(data) ==
    IF data.nextCursor # NoCursor THEN data.nextCursor
    ELSE extract_cursor(data.links_next)

----------------------------------------------------------------------------
(* get_json_with_retry_client *)

\* a header value is a string of these characters; "^2" is the one character
\* SUPERSCRIPT TWO (U+00B2, the byte B2 of a latin-1 header), which stands for
\* the characters str.isdigit() accepts and float() does not
HeaderChars == {"0", "4", "^2", "x"}

RECURSIVE Strings(_)
Strings(n) ==
    IF n = 0 THEN {<<>>}
    ELSE LET shorter == Strings(n - 1)
         IN  shorter \cup {Append(s, c) : s \in {t \in shorter : Len(t) = n - 1},
                                          c \in HeaderChars}

\* r.headers.get("Retry-After"): None and "" are both <<>>, both falsy at line 154
RetryAfterValues == Strings(MaxHeaderLen)

DecimalDigits == <<"0", "1", "2", "3", "4", "5", "6", "7", "8", "9">>

IsDecimal(c) == \E d \in 1..10 : DecimalDigits[d] = c

DigitValue(c) == (CHOOSE d \in 1..10 : DecimalDigits[d] = c) - 1

\* str.isdigit()
isdigit(s) == s # <<>> /\ \A k \in 1..Len(s) : IsDecimal(s[k]) \/ s[k] = "^2"

RECURSIVE DecimalOf(_)
DecimalOf(s) ==
    IF s = <<>> THEN 0
    ELSE 10 * DecimalOf(SubSeq(s, 1, Len(s) - 1)) + DigitValue(s[Len(s)])

\* float() of a string isdigit() accepts: its value, or ValueError
float(s) ==
    IF \A k \in 1..Len(s) : IsDecimal(s[k])
    THEN [ok |-> TRUE, value |-> DecimalOf(s)]
    ELSE [ok |-> FALSE, value |-> 0]

Max(a, b) == IF a >= b THEN a ELSE b

\* lines 153-156
_compute_backoff(attempt, retry_after) ==
    IF retry_after # <<>> /\ isdigit(retry_after)
    THEN LET v == float(retry_after)
         IN  IF v.ok THEN [v EXCEPT !.value = Max(1, Min(@, HTTP_BACKOFF_CAP))] ELSE v
    ELSE [ok |-> TRUE, value |-> Min(2 ^ attempt, HTTP_BACKOFF_CAP)]

IsRetryStatusAny(status) == status >= 400

\* line 169
IsRetryStatus(status) == status \in HTTP_RETRY_STATUS

\* statuses of error responses, and their bodies
ErrorStatuses == {404, 429, 500, 503}

ErrorTexts == {"", "busy"}

----------------------------------------------------------------------------

\* history: the first value fixed_updated_to takes in the operation
Freeze(op, value) ==
    IF value # NoneStr /\ op \notin DOMAIN frozen
    THEN Put(frozen, op, value)
    ELSE frozen

\* history: the page request the loop issues; later says that fixed_updated_to had
\* a value in the operation before the request was built, first is the stages and
\* the updatedFrom of the first request of the operation (lines 380-388)
PageRequest(f) ==
    [ cursor |-> f.cursor, updatedTo |-> f.fixed_updated_to,
      updatedFrom |-> f.fixed_updated_from, stages |-> f.fixed_stages,
      first |-> IF f.op \in DOMAIN sent THEN sent[f.op].first
                ELSE [stages |-> f.fixed_stages, updatedFrom |-> f.fixed_updated_from],
      later |-> f.op \in DOMAIN frozen ]

\* lines 376-390: the head of the loop, up to the await of the page request
Top(r, f) ==
    IF QuotaSatisfied(f.remaining)
    THEN /\ runs' = Put(runs, r, [f EXCEPT !.pc = "manifest"])
         /\ sent' = sent
    ELSE /\ runs' = Put(runs, r, [f EXCEPT !.pc = "await", !.attempt = 0, !.wait = 0,
                                            !.gets = 1, !.sleeps = 0,
                                            !.fetch = Fetch("pending", 0, "")])
         /\ sent' = Put(sent, f.op, PageRequest(f))

\* lines 355-371: the locals restored from the checkpoint, then the head of the loop
Start(r) ==
    /\ MayStep(r)
    /\ runs[r].pc = "start"
    /\ LET f  == runs[r]
           cp == load_checkpoint(disk, f.op)
           f1 == IF cp = None
                 THEN [f EXCEPT !.fixed_updated_to = f.updatedTo,
                                !.fixed_updated_from = f.updatedFrom,
                                !.fixed_stages = f.stages,
                                !.remaining = InitialRemaining(f.total)]
                 ELSE [f EXCEPT !.cursor = cp[1].cursor,
                                !.pages = cp[1].pages,
                                !.received_raw = cp[1].received_raw,
                                !.events_written = cp[1].events_written,
                                !.objects_written = cp[1].objects_written,
                                !.processed_total = cp[1].processed_total,
                                !.fixed_updated_to = cp[1].fixed_updated_to,
                                !.fixed_updated_from = cp[1].fixed_updated_from,
                                !.fixed_stages = cp[1].fixed_stages,
                                !.remaining = InitialRemaining(f.total),
                                !.taken = cp[1].covers]
       IN  /\ Top(r, f1)
           /\ frozen' = Freeze(f.op, f1.fixed_updated_to)
    /\ lastResp' = NoResponse
    /\ UNCHANGED <<upstream, clock, registry, disk, nreq, ncrash, nfail, hist>>

\* lines 390-409: the page arrives; the bound is frozen, the page counted and cut
Respond(r, uriTo, linkTo) ==
    /\ MayStep(r)
    /\ runs[r].pc = "await"
    /\ LET f    == runs[r]
           data == Response(Serve(f.cursor), uriTo, linkTo)
           fut  == DeriveUpdatedTo(f.fixed_updated_to, data)
           cut  == PageReleases(data.releases, f.remaining)
       IN  /\ frozen' = Freeze(f.op, fut)
           /\ runs' = Put(runs, r,
                 IF data.releases = <<>>
                 THEN [f EXCEPT !.fixed_updated_to = fut, !.data = Some(data),
                                !.fetch = Fetch("returned", 200, ""),
                                !.pc = "manifest"]
                 ELSE [f EXCEPT !.fixed_updated_to = fut, !.data = Some(data),
                                !.fetch = Fetch("returned", 200, ""),
                                !.pages = @ + 1,
                                !.received_raw = @ + Len(data.releases),
                                !.page_releases = cut,
                                !.i = 1,
                                !.taken = @ \cup {<<f.pages + 1, cut[k]>> : k \in 1..Len(cut)},
                                !.pc = "obj"])
    /\ lastResp' = NoResponse
    /\ UNCHANGED <<upstream, clock, registry, disk, nreq, ncrash, nfail, sent, hist>>

\* line 390 raising: retries exhausted or the upstream rejected the request
RespondError(r) ==
    /\ MayStep(r)
    /\ runs[r].pc = "await"
    /\ nfail < MaxFail
    /\ nfail' = nfail + 1
    /\ runs' = Put(runs, r, [runs[r] EXCEPT !.pc = "except", !.error = "HTTPException",
                                             !.fetch = Fetch("raised", 0, "")])
    /\ lastResp' = NoResponse
    /\ UNCHANGED <<upstream, clock, registry, disk, nreq, ncrash, sent, frozen, hist>>

\* an exception leaves get_json_with_retry_client, and the try of line 375
RaiseFrom(f, error, fetch) == [f EXCEPT !.pc = "except", !.error = error, !.fetch = fetch]

\* lines 166-181 and 196-200: the response of the upstream has an error status
GetErrorStatus(r, status, retry_after, text) ==
    /\ MayStep(r)
    /\ runs[r].pc = "await"
    /\ LET f == runs[r]
           w == _compute_backoff(f.attempt, retry_after)
       IN  runs' = Put(runs, r,
             IF IsRetryStatus(status)
             THEN IF ~w.ok
                  THEN RaiseFrom(f, "ValueError", Fetch("ValueError", status, text))
                  ELSE IF f.attempt + 1 < HTTP_MAX_ATTEMPTS
                  THEN [f EXCEPT !.wait = w.value, !.sleeps = @ + 1,
                                 !.attempt = @ + 1, !.gets = @ + 1]
                  ELSE RaiseFrom([f EXCEPT !.wait = w.value, !.sleeps = @ + 1],
                                 "HTTPException", Fetch("exceeded retries", status, text))
             ELSE RaiseFrom(f, "HTTPException", Fetch("FindTender error", status, text)))
    /\ lastResp' = NoResponse
    /\ UNCHANGED <<upstream, clock, registry, disk, nreq, ncrash, nfail, sent, frozen, hist>>

\* lines 183-195: client.get raises httpx.RequestError
GetRequestError(r) ==
    /\ MayStep(r)
    /\ runs[r].pc = "await"
    /\ LET f == runs[r]
           w == _compute_backoff(f.attempt, None)
       IN  runs' = Put(runs, r,
             IF f.attempt = HTTP_MAX_ATTEMPTS - 1
             THEN RaiseFrom([f EXCEPT !.wait = w.value, !.sleeps = @ + 1],
                            "HTTPException", Fetch("Network error after retries", 0, ""))
             ELSE [f EXCEPT !.wait = w.value, !.sleeps = @ + 1,
                            !.attempt = @ + 1, !.gets = @ + 1])
    /\ lastResp' = NoResponse
    /\ UNCHANGED <<upstream, clock, registry, disk, nreq, ncrash, nfail, sent, frozen, hist>>

\* a write to the store raises (OSError) before it changes the file: lines 415,
\* 418, 442, 456, 470 or 510; at 510 the registry entry of line 509 is already set
StoreError(r) ==
    /\ MayStep(r)
    /\ runs[r].pc \in {"obj", "evt", "ckpt", "stat", "manifest", "final"}
    /\ nfail < MaxFail
    /\ nfail' = nfail + 1
    /\ registry' = IF runs[r].pc = "final"
                   THEN Put(registry, runs[r].op,
                          [status |-> "completed", completed |-> TRUE,
                           result |-> [ status |-> "success", operation_id |-> runs[r].op,
                                        pages |-> runs[r].pages,
                                        received_raw |-> runs[r].received_raw,
                                        events_written |-> runs[r].events_written,
                                        objects_written |-> runs[r].objects_written ]])
                   ELSE registry
    /\ runs' = Put(runs, r, [runs[r] EXCEPT !.pc = "except", !.error = "OSError"])
    /\ lastResp' = NoResponse
    /\ UNCHANGED <<upstream, clock, disk, nreq, ncrash, sent, frozen, hist>>

\* lines 412-416: the object of release i
WriteObject(r) ==
    /\ MayStep(r)
    /\ runs[r].pc = "obj"
    /\ LET f   == runs[r]
           rel == f.page_releases[f.i]
           h   == _content_hash_sha256(rel)
           d1  == write_object_if_missing(disk, f.op, h, rel)
       IN  /\ disk' = d1
           /\ runs' = Put(runs, r,
                 [f EXCEPT !.objects_written = IF d1 # disk THEN @ + 1 ELSE @,
                           !.pc = "evt"])
           /\ hist' = Put(hist, f.op, [HistOf(hist, f.op) EXCEPT !.ingested = @ \cup {rel}])
    /\ lastResp' = NoResponse
    /\ UNCHANGED <<upstream, clock, registry, nreq, ncrash, nfail, sent, frozen>>

\* lines 130-132: the check before the lock, where other writers may come between
CheckObject(r) ==
    /\ MayStep(r)
    /\ runs[r].pc = "obj"
    /\ LET f   == runs[r]
           rel == f.page_releases[f.i]
           h   == _content_hash_sha256(rel)
       IN  /\ runs' = Put(runs, r,
                 [f EXCEPT !.pc = IF ObjectExists(disk, f.op, h) THEN "evt" ELSE "obj_lock"])
           /\ hist' = IF ObjectExists(disk, f.op, h)
                      THEN Put(hist, f.op, [HistOf(hist, f.op) EXCEPT !.ingested = @ \cup {rel}])
                      ELSE hist
    /\ lastResp' = NoResponse
    /\ UNCHANGED <<upstream, clock, registry, disk, nreq, ncrash, nfail, sent, frozen>>

\* lines 133-138: the check and the write under the lock
LockedWrite(r) ==
    /\ MayStep(r)
    /\ runs[r].pc = "obj_lock"
    /\ LET f   == runs[r]
           rel == f.page_releases[f.i]
           h   == _content_hash_sha256(rel)
           d1  == write_object_if_missing(disk, f.op, h, rel)
       IN  /\ disk' = d1
           /\ runs' = Put(runs, r,
                 [f EXCEPT !.objects_written = IF d1 # disk THEN @ + 1 ELSE @,
                           !.raced = (d1 = disk),
                           !.pc = "evt"])
           /\ hist' = Put(hist, f.op, [HistOf(hist, f.op) EXCEPT !.ingested = @ \cup {rel}])
    /\ lastResp' = NoResponse
    /\ UNCHANGED <<upstream, clock, registry, nreq, ncrash, nfail, sent, frozen>>

\* another holder of clone_file_lock calls write_object_if_missing (lines 129-138)
\* for the object a loop is about to write
ForeignWrite(r) ==
    /\ r \in DOMAIN runs
    /\ runs[r].pc \in {"obj", "obj_lock"}
    /\ LET f   == runs[r]
           rel == f.page_releases[f.i]
           h   == _content_hash_sha256(rel)
       IN  /\ ~ObjectExists(disk, f.op, h)
           /\ disk' = write_object_if_missing(disk, f.op, h, rel)
    /\ lastResp' = NoResponse
    /\ UNCHANGED <<upstream, clock, registry, runs, nreq, ncrash, nfail, sent, frozen, hist>>

\* lines 430-432
ProcessedAfterPage(f) ==
    IF f.remaining # Inf THEN f.processed_total + Len(f.page_releases) ELSE f.processed_total

RemainingAfterPage(f) ==
    IF f.remaining # Inf THEN Some(f.total - ProcessedAfterPage(f)) ELSE f.remaining

\* lines 418-428: the event of release i; after the last one, lines 430-440
AppendEvent(r) ==
    /\ MayStep(r)
    /\ runs[r].pc = "evt"
    /\ LET f   == runs[r]
           rel == f.page_releases[f.i]
           ev  == [ page |-> f.pages, cursor |-> f.cursor, ocid |-> Get(rel, "ocid"),
                    content_hash |-> _content_hash_sha256(rel) ]
           f0  == _rotate_if_needed(f)
           f1  == [f0 EXCEPT !.events_written = @ + 1, !.part_bytes = @ + 1]
       IN  /\ disk' = append_event(disk, f.op, f0.part_index, ev)
           /\ runs' = Put(runs, r,
                 IF f.i < Len(f.page_releases)
                 THEN [f1 EXCEPT !.i = @ + 1, !.pc = "obj"]
                 ELSE [f1 EXCEPT !.processed_total = ProcessedAfterPage(f),
                                 !.remaining = RemainingAfterPage(f),
                                 !.cursor = NextCursor(f.data[1]),
                                 !.pc = IF NextCursor(f.data[1]) = NoCursor
                                        THEN "manifest" ELSE "ckpt"])
    /\ lastResp' = NoResponse
    /\ UNCHANGED <<upstream, clock, registry, nreq, ncrash, nfail, sent, frozen, hist>>

Stats(f) ==
    [ pages |-> f.pages, received_raw |-> f.received_raw,
      events_written |-> f.events_written, objects_written |-> f.objects_written ]

\* lines 442-454; covers is history: the (page, release) pairs the checkpoint counts
Checkpoint(f) ==
    [ operation_id |-> f.op, cursor |-> f.cursor, pages |-> f.pages,
      received_raw |-> f.received_raw, processed_total |-> f.processed_total,
      events_written |-> f.events_written, objects_written |-> f.objects_written,
      fixed_updated_from |-> f.fixed_updated_from,
      fixed_updated_to |-> f.fixed_updated_to, fixed_stages |-> f.fixed_stages,
      covers |-> f.taken ]

SaveCheckpoint(r) ==
    /\ MayStep(r)
    /\ runs[r].pc = "ckpt"
    /\ disk' = save_checkpoint(disk, runs[r].op, Checkpoint(runs[r]))
    /\ runs' = Put(runs, r, [runs[r] EXCEPT !.pc = "stat"])
    /\ lastResp' = NoResponse
    /\ UNCHANGED <<upstream, clock, registry, nreq, ncrash, nfail, sent, frozen, hist>>

\* lines 456-466
ProgressStatus(f) ==
    [ operation_id |-> f.op, status |-> "running", pages |-> f.pages,
      received_raw |-> f.received_raw, events_written |-> f.events_written,
      objects_written |-> f.objects_written, cursor |-> f.cursor ]

\* lines 456-466, then the head of the loop again
SaveStatus(r) ==
    /\ MayStep(r)
    /\ runs[r].pc = "stat"
    /\ disk' = save_status(disk, runs[r].op, ProgressStatus(runs[r]))
    /\ Top(r, runs[r])
    /\ lastResp' = NoResponse
    /\ UNCHANGED <<upstream, clock, registry, nreq, ncrash, nfail, frozen, hist>>

\* the file a frame at line 442 or 456 writes, and its content
Target(f) == IF f.pc = "ckpt" THEN "checkpoint" ELSE "status"

Payload(f) == IF f.pc = "ckpt" THEN Checkpoint(f) ELSE ProgressStatus(f)

\* lines 442 and 456, statement by statement: line 56 of _atomic_write_json
OpenTmp(r) ==
    /\ MayStep(r)
    /\ runs[r].pc \in {"ckpt", "stat"}
    /\ runs[r].io = "none"
    /\ LET f == runs[r]
       IN  /\ disk' = open_w(disk, f.op, Target(f), Payload(f))
           /\ runs' = Put(runs, r, [f EXCEPT !.io = "opened", !.old = disk[f.op][Target(f)]])
    /\ lastResp' = NoResponse
    /\ UNCHANGED <<upstream, clock, registry, nreq, ncrash, nfail, sent, frozen, hist>>

\* line 57
DumpTmp(r) ==
    /\ MayStep(r)
    /\ runs[r].pc \in {"ckpt", "stat"}
    /\ runs[r].io = "opened"
    /\ LET f == runs[r]
       IN  /\ disk' = json_dump(disk, f.op, Target(f), Payload(f))
           /\ runs' = Put(runs, r, [f EXCEPT !.io = "dumped"])
    /\ lastResp' = NoResponse
    /\ UNCHANGED <<upstream, clock, registry, nreq, ncrash, nfail, sent, frozen, hist>>

\* line 58, then the statement after the save
ReplaceTmp(r) ==
    /\ MayStep(r)
    /\ runs[r].pc \in {"ckpt", "stat"}
    /\ runs[r].io = "dumped"
    /\ LET f  == runs[r]
           f1 == [f EXCEPT !.io = "none", !.old = None]
       IN  /\ disk' = replace(disk, f.op, Target(f))
           /\ IF f.pc = "ckpt"
              THEN /\ runs' = Put(runs, r, [f1 EXCEPT !.pc = "stat"])
                   /\ sent' = sent
              ELSE Top(r, f1)
    /\ lastResp' = NoResponse
    /\ UNCHANGED <<upstream, clock, registry, nreq, ncrash, nfail, frozen, hist>>

\* lines 470-494
Manifest(f) ==
    [ operation_id |-> f.op,
      total_requested |-> IF f.total > 0 THEN f.total ELSE -1,
      stages |-> f.fixed_stages, updatedFrom |-> f.fixed_updated_from,
      updatedTo |-> f.fixed_updated_to,
      stats |-> Stats(f) ]

FinalizeManifest(r) ==
    /\ MayStep(r)
    /\ runs[r].pc = "manifest"
    /\ disk' = finalize_manifest(disk, runs[r].op, Manifest(runs[r]))
    /\ runs' = Put(runs, r, [runs[r] EXCEPT !.pc = "final"])
    /\ lastResp' = NoResponse
    /\ UNCHANGED <<upstream, clock, registry, nreq, ncrash, nfail, sent, frozen, hist>>

\* lines 496-507
Result(f) ==
    [ status |-> "success", operation_id |-> f.op, pages |-> f.pages,
      received_raw |-> f.received_raw, events_written |-> f.events_written,
      objects_written |-> f.objects_written ]

\* lines 509-511: the terminal success; a synchronous caller gets the result
Complete(r) ==
    /\ MayStep(r)
    /\ runs[r].pc = "final"
    /\ LET f == runs[r]
       IN  /\ registry' = Put(registry, f.op,
                 [status |-> "completed", completed |-> TRUE, result |-> Result(f)])
           /\ disk' = save_status(disk, f.op,
                 [operation_id |-> f.op, status |-> "completed", result |-> Result(f)])
           /\ runs' = Drop(runs, r)
           /\ lastResp' = IF f.background THEN NoResponse
                          ELSE Reply(200, "result", Result(f))
    /\ UNCHANGED <<upstream, clock, nreq, ncrash, nfail, sent, frozen, hist>>

\* line 515
FailedEntry(error_msg) == [status |-> "failed", completed |-> TRUE, error |-> error_msg]

FailedStatusStale(op, error_msg) == [operation_id |-> op, status |-> "running"]

\* line 516
FailedStatus(op, error_msg) == [operation_id |-> op, status |-> "failed", error |-> error_msg]

\* lines 513-517: the failure is recorded and re-raised; a background task keeps
\* the exception for its done callback
Fail(r) ==
    /\ MayStep(r)
    /\ runs[r].pc = "except"
    /\ LET f == runs[r]
       IN  /\ registry' = Put(registry, f.op, FailedEntry(f.error))
           /\ disk' = save_status(disk, f.op, FailedStatus(f.op, f.error))
           /\ runs' = IF f.background
                      THEN Put(runs, r, [f EXCEPT !.pc = "callback"])
                      ELSE Drop(runs, r)
           /\ lastResp' = IF f.background THEN NoResponse
                          ELSE Reply(500, "clone_failed", [detail |-> f.error])
           /\ hist' = Put(hist, f.op, [HistOf(hist, f.op) EXCEPT !.dirty = TRUE])
    /\ UNCHANGED <<upstream, clock, nreq, ncrash, nfail, sent, frozen>>

\* str(e) of the HTTPException of line 517
RaisedDetail(error_msg) ==
    IF error_msg = "HTTPException" THEN "500: Clone failed: HTTPException"
    ELSE IF error_msg = "OSError" THEN "500: Clone failed: OSError"
    ELSE IF error_msg = "ValueError" THEN "500: Clone failed: ValueError"
    ELSE "500: Clone failed"

\* lines 203-209, for a task that ended with an exception
_handle_background_task_result(r) ==
    /\ MayStep(r)
    /\ runs[r].pc = "callback"
    /\ LET f == runs[r]
       IN  registry' = IF f.op \in DOMAIN registry
                       THEN Put(registry, f.op,
                              [k \in DOMAIN registry[f.op] \cup {"status", "completed", "error"} |->
                                 CASE k = "status" -> "failed"
                                   [] k = "completed" -> TRUE
                                   [] k = "error" -> RaisedDetail(f.error)
                                   [] OTHER -> registry[f.op][k]])
                       ELSE registry
    /\ runs' = Drop(runs, r)
    /\ lastResp' = NoResponse
    /\ UNCHANGED <<upstream, clock, disk, nreq, ncrash, nfail, sent, frozen, hist>>

----------------------------------------------------------------------------
(* Process termination: the registry and the coroutines are lost, the files stay *)

\* the frame has written nothing since its checkpoint was persisted
AtCheckpoint(f) ==
    \/ f.pc = "stat"
    \/ /\ f.pc = "await"
       /\ load_checkpoint(disk, f.op) = Some(Checkpoint(f))

Crash ==
    /\ ncrash < MaxCrash
    /\ runs # Empty \/ registry # Empty
    /\ ncrash' = ncrash + 1
    /\ runs' = Empty
    /\ registry' = Empty
    /\ hist' = [op \in DOMAIN hist |->
                 IF RunsOf(op) = {} THEN hist[op]
                 ELSE IF \A r \in RunsOf(op) : AtCheckpoint(runs[r])
                      THEN [hist[op] EXCEPT !.killed = TRUE]
                      ELSE [hist[op] EXCEPT !.dirty = TRUE]]
    /\ lastResp' = NoResponse
    /\ UNCHANGED <<upstream, clock, disk, nreq, nfail, sent, frozen>>

----------------------------------------------------------------------------
(* Specifications *)

InitWith(chains) ==
    /\ upstream \in chains
    /\ clock = 0
    /\ registry = Empty
    /\ disk = Empty
    /\ runs = Empty
    /\ lastResp = NoResponse
    /\ nreq = 0
    /\ ncrash = 0
    /\ nfail = 0
    /\ sent = Empty
    /\ frozen = Empty
    /\ hist = Empty

\* Concurrent callers: fresh, resumed, forced, synchronous and background triggers
\* of unlimited clones interleave with the running loops. The upstream holds one
\* page, so every loop leaves at line 440 and never reaches save_checkpoint.
Init == InitWith({ChainTiny})

\* the requests callers send: unlimited, naming no id, an id on disk, or an id of
\* the generated form
AllRequests == Requests({-1}, {NoneStr}, DOMAIN disk \cup {GuessedId(clock)})

Trigger ==
    \E req \in AllRequests : \E now \in Now : clone_raw_database(req, now)

Next ==
    \/ Trigger
    \/ \E r \in DOMAIN runs : Start(r)
    \/ \E r \in DOMAIN runs : Respond(r, "t1", NoneStr)
    \/ \E r \in DOMAIN runs : RespondError(r)
    \/ \E r \in DOMAIN runs : WriteObject(r)
    \/ \E r \in DOMAIN runs : AppendEvent(r)
    \/ \E r \in DOMAIN runs : FinalizeManifest(r)
    \/ \E r \in DOMAIN runs : Complete(r)
    \/ \E r \in DOMAIN runs : Fail(r)
    \/ \E r \in DOMAIN runs : _handle_background_task_result(r)

Spec == Init /\ [][Next]_vars

\* One caller at a time: it triggers a synchronous clone, and triggers again with
\* the operation id once the previous call has returned or the process has died.
InitResume == InitWith(Upstreams)

TriggerResume ==
    /\ runs = Empty
    /\ \E req \in Requests({-1, 3}, {NoneStr}, DOMAIN disk) :
          /\ ~req.background
          /\ req.operation_id = None <=> disk = Empty
          /\ clone_raw_database(req, clock)

NextResume ==
    \/ TriggerResume
    \/ \E r \in DOMAIN runs : Start(r)
    \/ \E r \in DOMAIN runs : \E e \in Echoes : Respond(r, e[1], e[2])
    \/ \E r \in DOMAIN runs : RespondError(r)
    \/ \E r \in DOMAIN runs : WriteObject(r)
    \/ \E r \in DOMAIN runs : AppendEvent(r)
    \/ \E r \in DOMAIN runs : SaveCheckpoint(r)
    \/ \E r \in DOMAIN runs : SaveStatus(r)
    \/ \E r \in DOMAIN runs : FinalizeManifest(r)
    \/ \E r \in DOMAIN runs : Complete(r)
    \/ \E r \in DOMAIN runs : Fail(r)
    \/ Crash

SpecResume == InitResume /\ [][NextResume]_vars

\* One caller at a time, synchronous or background, of unlimited clones whose page
\* fetches and store writes may raise; it triggers again with the operation id.
InitFail == InitWith(Upstreams)

TriggerFail ==
    /\ runs = Empty
    /\ \E req \in Requests({-1}, {NoneStr}, DOMAIN disk) :
          /\ req.operation_id = None <=> disk = Empty
          /\ clone_raw_database(req, clock)

NextFail ==
    \/ TriggerFail
    \/ \E r \in DOMAIN runs : Start(r)
    \/ \E r \in DOMAIN runs : Respond(r, "t1", NoneStr)
    \/ \E r \in DOMAIN runs : RespondError(r)
    \/ \E r \in DOMAIN runs : StoreError(r)
    \/ \E r \in DOMAIN runs : WriteObject(r)
    \/ \E r \in DOMAIN runs : AppendEvent(r)
    \/ \E r \in DOMAIN runs : SaveCheckpoint(r)
    \/ \E r \in DOMAIN runs : SaveStatus(r)
    \/ \E r \in DOMAIN runs : FinalizeManifest(r)
    \/ \E r \in DOMAIN runs : Complete(r)
    \/ \E r \in DOMAIN runs : Fail(r)
    \/ \E r \in DOMAIN runs : _handle_background_task_result(r)

SpecFail == InitFail /\ [][NextFail]_vars

\* One synchronous caller at a time of a three-page clone whose checkpoint and
\* status writes are taken statement by statement; the process may die between
\* any two of them and a poll may read at any time.
InitAtomic == InitWith({ChainEmptyEnd})

TriggerAtomic ==
    /\ runs = Empty
    /\ \E req \in Requests({-1}, {NoneStr}, DOMAIN disk) :
          /\ ~req.background
          /\ req.operation_id = None <=> disk = Empty
          /\ clone_raw_database(req, clock)

NextAtomic ==
    \/ TriggerAtomic
    \/ \E op \in DOMAIN disk : StatusPoll(op)
    \/ \E r \in DOMAIN runs : Start(r)
    \/ \E r \in DOMAIN runs : Respond(r, "t1", NoneStr)
    \/ \E r \in DOMAIN runs : WriteObject(r)
    \/ \E r \in DOMAIN runs : AppendEvent(r)
    \/ \E r \in DOMAIN runs : OpenTmp(r)
    \/ \E r \in DOMAIN runs : DumpTmp(r)
    \/ \E r \in DOMAIN runs : ReplaceTmp(r)
    \/ \E r \in DOMAIN runs : FinalizeManifest(r)
    \/ \E r \in DOMAIN runs : Complete(r)
    \/ Crash

SpecAtomic == InitAtomic /\ [][NextAtomic]_vars

\* One synchronous caller at a time; the two checks of an object write are taken
\* apart, and another holder of the lock may write the same object in between.
InitStore == InitWith({ChainOne, ChainEmptyEnd})

TriggerStore ==
    /\ runs = Empty
    /\ \E req \in Requests({-1}, {NoneStr}, DOMAIN disk) :
          /\ ~req.background
          /\ req.operation_id = None <=> disk = Empty
          /\ clone_raw_database(req, clock)

NextStore ==
    \/ TriggerStore
    \/ \E r \in DOMAIN runs : Start(r)
    \/ \E r \in DOMAIN runs : Respond(r, "t1", NoneStr)
    \/ \E r \in DOMAIN runs : CheckObject(r)
    \/ \E r \in DOMAIN runs : LockedWrite(r)
    \/ \E r \in DOMAIN runs : ForeignWrite(r)
    \/ \E r \in DOMAIN runs : AppendEvent(r)
    \/ \E r \in DOMAIN runs : SaveCheckpoint(r)
    \/ \E r \in DOMAIN runs : SaveStatus(r)
    \/ \E r \in DOMAIN runs : FinalizeManifest(r)
    \/ \E r \in DOMAIN runs : Complete(r)
    \/ Crash

SpecStore == InitStore /\ [][NextStore]_vars

\* One caller at a time names stages and updatedFrom: the first trigger creates the
\* operation, the later ones resume or force it with values of their own.
StagesValues == {"tender", "award"}

UpdatedFromValues == {NoneStr, "2024-01-01"}

InitParams == InitWith({ChainOne, ChainEmptyEnd})

TriggerParams ==
    /\ runs = Empty
    /\ \E req \in RequestsWith({-1}, {NoneStr}, UpdatedFromValues, StagesValues, DOMAIN disk) :
          /\ ~req.background
          /\ req.operation_id = None <=> disk = Empty
          /\ clone_raw_database(req, clock)

NextParams ==
    \/ TriggerParams
    \/ \E r \in DOMAIN runs : Start(r)
    \/ \E r \in DOMAIN runs : Respond(r, "t1", NoneStr)
    \/ \E r \in DOMAIN runs : WriteObject(r)
    \/ \E r \in DOMAIN runs : AppendEvent(r)
    \/ \E r \in DOMAIN runs : SaveCheckpoint(r)
    \/ \E r \in DOMAIN runs : SaveStatus(r)
    \/ \E r \in DOMAIN runs : FinalizeManifest(r)
    \/ \E r \in DOMAIN runs : Complete(r)
    \/ Crash

SpecParams == InitParams /\ [][NextParams]_vars

\* a JSON text that is not a checkpoint the program wrote, named by its text
Foreign(text) == [json |-> text]

\* the document is one the program wrote
WellFormed(doc) == "json" \notin DOMAIN doc

\* an array, an object without members, an object whose pages member is null
ForeignTexts == {"[]", "{}", "{pages: null}"}

\* lines 359-366 on a document the program did not write: [].get raises
\* AttributeError at line 359, int(None) raises TypeError at line 361, and the
\* defaults of get are taken for the members an object lacks
RestoreRaises(doc) == ~WellFormed(doc) /\ doc.json \in {"[]", "{pages: null}"}

\* checkpoint.json is changed from outside while no run is in progress
Tamper(op, file) ==
    /\ runs = Empty
    /\ nfail < MaxFail
    /\ nfail' = nfail + 1
    /\ disk[op].checkpoint # None
    /\ file # disk[op].checkpoint
    /\ disk' = [disk EXCEPT ![op].checkpoint = file]
    /\ lastResp' = NoResponse
    /\ UNCHANGED <<upstream, clock, registry, runs, nreq, ncrash, sent, frozen, hist>>

\* the files a change from outside may leave: none, a cut one, a foreign text
TamperedFiles(op) ==
    {None} \cup {Torn(file[1]) : file \in {disk[op].checkpoint} \ {None}}
           \cup {Some(Foreign(t)) : t \in ForeignTexts}

\* lines 355-371 for any content of checkpoint.json: the statements before the try
\* of line 375 raise out of the coroutine, and the handler answers 500 with the
\* registry entry and status.json left at running
StartLoad(r) ==
    /\ MayStep(r)
    /\ runs[r].pc = "start"
    /\ LET f  == runs[r]
           cp == load_checkpoint(disk, f.op)
       IN  IF cp = None \/ WellFormed(cp[1])
           THEN Start(r)
           ELSE IF RestoreRaises(cp[1])
           THEN /\ runs' = Drop(runs, r)
                /\ lastResp' = Reply(500, "internal_error", NoBody)
                /\ UNCHANGED <<upstream, clock, registry, disk, nreq, ncrash, nfail,
                               sent, frozen, hist>>
           ELSE /\ Top(r, [f EXCEPT !.fixed_updated_to = f.updatedTo,
                                     !.fixed_updated_from = f.updatedFrom,
                                     !.fixed_stages = f.stages,
                                     !.remaining = InitialRemaining(f.total)])
                /\ frozen' = Freeze(f.op, f.updatedTo)
                /\ lastResp' = NoResponse
                /\ UNCHANGED <<upstream, clock, registry, disk, nreq, ncrash, nfail, hist>>

\* One synchronous caller at a time; between two runs checkpoint.json may be
\* removed, cut short, or replaced by a JSON text the program did not write.
InitLoad == InitWith({ChainEmptyEnd, ChainThree})

TriggerLoad ==
    /\ runs = Empty
    /\ \E req \in Requests({-1}, {NoneStr}, DOMAIN disk) :
          /\ ~req.background
          /\ req.operation_id = None <=> disk = Empty
          /\ clone_raw_database(req, clock)

NextLoad ==
    \/ TriggerLoad
    \/ \E op \in DOMAIN disk : \E file \in TamperedFiles(op) : Tamper(op, file)
    \/ \E r \in DOMAIN runs : StartLoad(r)
    \/ \E r \in DOMAIN runs : Respond(r, "t1", NoneStr)
    \/ \E r \in DOMAIN runs : WriteObject(r)
    \/ \E r \in DOMAIN runs : AppendEvent(r)
    \/ \E r \in DOMAIN runs : SaveCheckpoint(r)
    \/ \E r \in DOMAIN runs : SaveStatus(r)
    \/ \E r \in DOMAIN runs : FinalizeManifest(r)
    \/ \E r \in DOMAIN runs : Complete(r)
    \/ Crash

SpecLoad == InitLoad /\ [][NextLoad]_vars

\* One synchronous caller at a time, with a quota of one record or none; once the
\* operation has completed it is triggered again, forced or not.
InitForce == InitWith({ChainOne, ChainThree})

TriggerForce ==
    /\ runs = Empty
    /\ \E req \in Requests({-1, 1}, {NoneStr}, DOMAIN disk) :
          /\ ~req.background
          /\ req.operation_id = None <=> disk = Empty
          /\ clone_raw_database(req, clock)

NextForce ==
    \/ TriggerForce
    \/ \E r \in DOMAIN runs : Start(r)
    \/ \E r \in DOMAIN runs : Respond(r, "t1", NoneStr)
    \/ \E r \in DOMAIN runs : WriteObject(r)
    \/ \E r \in DOMAIN runs : AppendEvent(r)
    \/ \E r \in DOMAIN runs : SaveCheckpoint(r)
    \/ \E r \in DOMAIN runs : SaveStatus(r)
    \/ \E r \in DOMAIN runs : FinalizeManifest(r)
    \/ \E r \in DOMAIN runs : Complete(r)

SpecForce == InitForce /\ [][NextForce]_vars

\* One synchronous caller at a time whose totals are the non-positive ones the
\* trigger accepts (line 229: ge=-1); it triggers again, forced or not.
NonPositiveTotals == {-1, 0}

InitUnlimited == InitWith({ChainThree, ChainEmptyEnd})

TriggerUnlimited ==
    /\ runs = Empty
    /\ \E req \in Requests(NonPositiveTotals, {NoneStr}, DOMAIN disk) :
          /\ ~req.background
          /\ req.operation_id = None <=> disk = Empty
          /\ clone_raw_database(req, clock)

NextUnlimited ==
    \/ TriggerUnlimited
    \/ \E r \in DOMAIN runs : Start(r)
    \/ \E r \in DOMAIN runs : Respond(r, "t1", NoneStr)
    \/ \E r \in DOMAIN runs : WriteObject(r)
    \/ \E r \in DOMAIN runs : AppendEvent(r)
    \/ \E r \in DOMAIN runs : SaveCheckpoint(r)
    \/ \E r \in DOMAIN runs : SaveStatus(r)
    \/ \E r \in DOMAIN runs : FinalizeManifest(r)
    \/ \E r \in DOMAIN runs : Complete(r)

SpecUnlimited == InitUnlimited /\ [][NextUnlimited]_vars

\* Concurrent callers that name no operation id: synchronous and background
\* triggers of one-page clones, each creating an operation of its own.
InitCeiling == InitWith({ChainTiny})

FreshRequests == Requests({-1}, {NoneStr}, {})

TriggerCeiling ==
    \E req \in FreshRequests : \E now \in Now : clone_raw_database(req, now)

NextCeiling ==
    \/ TriggerCeiling
    \/ \E r \in DOMAIN runs : Start(r)
    \/ \E r \in DOMAIN runs : Respond(r, "t1", NoneStr)
    \/ \E r \in DOMAIN runs : WriteObject(r)
    \/ \E r \in DOMAIN runs : AppendEvent(r)
    \/ \E r \in DOMAIN runs : FinalizeManifest(r)
    \/ \E r \in DOMAIN runs : Complete(r)

SpecCeiling == InitCeiling /\ [][NextCeiling]_vars

\* One caller at a time, synchronous or background, unlimited or with a quota,
\* against a finite chain; a page fetch returns or raises. The event loop runs
\* every coroutine and callback that is ready, and every awaited fetch ends.
InitLive == InitWith({ChainOne, ChainEmptyEnd})

TriggerLive ==
    /\ runs = Empty
    /\ \E req \in Requests({-1, 3}, {NoneStr}, DOMAIN disk) :
          /\ req.operation_id = None <=> disk = Empty
          /\ clone_raw_database(req, clock)

\* line 390: the awaited fetch ends, with a page or with an exception
FetchEnds(r) == Respond(r, "t1", NoneStr) \/ RespondError(r)

\* the synchronous statements of the loop up to its next await or its end
LoopStep(r) ==
    \/ Start(r)
    \/ WriteObject(r)
    \/ AppendEvent(r)
    \/ SaveCheckpoint(r)
    \/ SaveStatus(r)
    \/ FinalizeManifest(r)
    \/ Complete(r)
    \/ Fail(r)
    \/ _handle_background_task_result(r)

NextLive ==
    \/ TriggerLive
    \/ \E r \in DOMAIN runs : FetchEnds(r)
    \/ \E r \in DOMAIN runs : LoopStep(r)

SpecLive ==
    /\ InitLive /\ [][NextLive]_vars
    /\ WF_vars(\E r \in DOMAIN runs : FetchEnds(r))
    /\ WF_vars(\E r \in DOMAIN runs : LoopStep(r))

\* One synchronous caller at a time of one-page clones; every request of a page
\* fetch may meet an error status, with any Retry-After header, or a transport
\* error.
InitRetry == InitWith({ChainTiny})

TriggerRetry ==
    /\ runs = Empty
    /\ \E req \in Requests({-1}, {NoneStr}, DOMAIN disk) :
          /\ ~req.background
          /\ req.operation_id = None <=> disk = Empty
          /\ clone_raw_database(req, clock)

NextRetry ==
    \/ TriggerRetry
    \/ \E r \in DOMAIN runs : Start(r)
    \/ \E r \in DOMAIN runs : Respond(r, "t1", NoneStr)
    \/ \E r \in DOMAIN runs : \E status \in ErrorStatuses :
          \E retry_after \in RetryAfterValues : \E text \in ErrorTexts :
             GetErrorStatus(r, status, retry_after, text)
    \/ \E r \in DOMAIN runs : GetRequestError(r)
    \/ \E r \in DOMAIN runs : WriteObject(r)
    \/ \E r \in DOMAIN runs : AppendEvent(r)
    \/ \E r \in DOMAIN runs : FinalizeManifest(r)
    \/ \E r \in DOMAIN runs : Complete(r)
    \/ \E r \in DOMAIN runs : Fail(r)

SpecRetry == InitRetry /\ [][NextRetry]_vars

\* One caller at a time of one-page clones, polled at any time for the status of
\* any id; the first status write may raise and the process may die.
InitPoll == InitWith({ChainTiny})

\* the ids a poll may name: those on disk, those tracked, and one nobody has
PollIds == DOMAIN disk \cup DOMAIN registry \cup {GuessedId(clock + 1)}

TriggerPoll ==
    /\ runs = Empty
    /\ \E req \in Requests({-1}, {NoneStr}, DOMAIN disk) :
          /\ req.operation_id = None <=> disk = Empty
          /\ \/ clone_raw_database(req, clock)
             \/ SaveStatusRaises(req, clock)

NextPoll ==
    \/ TriggerPoll
    \/ \E op \in PollIds : StatusPoll(op)
    \/ \E r \in DOMAIN runs : Start(r)
    \/ \E r \in DOMAIN runs : Respond(r, "t1", NoneStr)
    \/ \E r \in DOMAIN runs : RespondError(r)
    \/ \E r \in DOMAIN runs : WriteObject(r)
    \/ \E r \in DOMAIN runs : AppendEvent(r)
    \/ \E r \in DOMAIN runs : FinalizeManifest(r)
    \/ \E r \in DOMAIN runs : Complete(r)
    \/ \E r \in DOMAIN runs : Fail(r)
    \/ \E r \in DOMAIN runs : _handle_background_task_result(r)
    \/ Crash

SpecPoll == InitPoll /\ [][NextPoll]_vars

----------------------------------------------------------------------------
(* Properties *)

\* the content hash of every release the upstream chains hold
Releases == {RelA, RelA2, RelB, RelC, RelD}

HashOf == [rel \in Releases |-> _content_hash_sha256(rel)]

StatusIs(op, what) ==
    /\ read_status(disk, op) # None
    /\ read_status(disk, op)[1].status = what

EventFor(op, page, rel) ==
    \E k \in 1..Len(EventLog(disk, op)) :
        /\ EventLog(disk, op)[k].content_hash = HashOf[rel]
        /\ EventLog(disk, op)[k].page = page

\* the object files created for hash h so far
TimesWritten(op, h) == Cardinality({k \in 1..Len(disk[op].writes) : disk[op].writes[k] = h})

\* C1: in every state, crash points included, every release taken from a page that
\* the persisted checkpoint counts has its object in the store and an event in the
\* log; for an operation only ever run unlimited these are all releases of the
\* first `pages` pages of the upstream.
CheckpointAfterCommit ==
    \A op \in DOMAIN disk :
        load_checkpoint(disk, op) # None =>
            LET cp == load_checkpoint(disk, op)[1]
            IN  /\ \A t \in cp.covers :
                      /\ t[1] <= cp.pages
                      /\ ObjectExists(disk, op, HashOf[t[2]])
                      /\ EventFor(op, t[1], t[2])
                /\ HistOf(hist, op).totals \subseteq {-1} =>
                      \A p \in 1..cp.pages : \A k \in 1..Len(upstream[p].releases) :
                          <<p, upstream[p].releases[k]>> \in cp.covers

\* C1 witness: the process died with a checkpoint on disk that counts two pages
CheckpointAfterCommitWitness ==
    \E op \in DOMAIN disk :
        /\ ncrash >= 1
        /\ runs = Empty
        /\ load_checkpoint(disk, op) # None
        /\ load_checkpoint(disk, op)[1].pages = 2
        /\ Cardinality(load_checkpoint(disk, op)[1].covers) >= 3

\* the stats an uninterrupted run from an empty store ends with (lines 376-440)
RECURSIVE Uninterrupted(_, _, _, _, _, _)
Uninterrupted(total, cursor, st, seen, processed, remaining) ==
    IF QuotaSatisfied(remaining) THEN st
    ELSE LET data == Response(Serve(cursor), NoneStr, NoneStr)
             cut  == PageReleases(data.releases, remaining)
             hs   == {HashOf[cut[k]] : k \in 1..Len(cut)}
             st1  == [ pages |-> st.pages + 1,
                       received_raw |-> st.received_raw + Len(data.releases),
                       events_written |-> st.events_written + Len(cut),
                       objects_written |-> st.objects_written + Cardinality(hs \ seen) ]
             proc == IF remaining # Inf THEN processed + Len(cut) ELSE processed
             rem  == IF remaining # Inf THEN Some(total - proc) ELSE remaining
         IN  IF data.releases = <<>> THEN st
             ELSE IF NextCursor(data) = NoCursor THEN st1
             ELSE Uninterrupted(total, NextCursor(data), st1, seen \cup hs, proc, rem)

UninterruptedStats(total) ==
    Uninterrupted(total, NoCursor,
        [pages |-> 0, received_raw |-> 0, events_written |-> 0, objects_written |-> 0],
        {}, 0, InitialRemaining(total))

\* the operation ended in success after runs with one total, each but the last
\* killed right after it persisted a checkpoint
KilledAtCheckpointsThenDone(op, total) ==
    /\ StatusIs(op, "completed")
    /\ disk[op].manifest # None
    /\ RunsOf(op) = {}
    /\ HistOf(hist, op).totals = {total}
    /\ ~HistOf(hist, op).dirty
    /\ HistOf(hist, op).killed

\* C2: killing the orchestrator right after a checkpoint is persisted and triggering
\* again with the same operation id and parameters ends with the manifest stats of
\* an uninterrupted run, for unlimited and finite totals, and writes no object twice.
ResumeReachesSameManifest ==
    \A op \in DOMAIN disk : \A total \in {-1, 3} :
        KilledAtCheckpointsThenDone(op, total) =>
            /\ disk[op].manifest[1].stats = UninterruptedStats(total)
            /\ \A h \in DOMAIN disk[op].objects : TimesWritten(op, h) = 1

\* C2 for unlimited totals only, which the code satisfies
ResumeReachesSameManifestUnlimited ==
    \A op \in DOMAIN disk :
        KilledAtCheckpointsThenDone(op, -1) =>
            /\ disk[op].manifest[1].stats = UninterruptedStats(-1)
            /\ \A h \in DOMAIN disk[op].objects : TimesWritten(op, h) = 1

ResumeUnlimitedWitness ==
    \E op \in DOMAIN disk : KilledAtCheckpointsThenDone(op, -1) /\ Len(upstream) = 3

\* C3: a trigger naming an operation id without a directory is answered 404 and
\* creates no directory, no status file, no registry entry and no run.
UnknownIdRejected ==
    [][\A req \in AllRequests : \A now \in Now :
          ( /\ clone_raw_database(req, now)
            /\ ~CeilingHit(registry, req.background)
            /\ req.operation_id # None
            /\ req.operation_id[1] \notin DOMAIN disk )
          => /\ lastResp'.code = 404
             /\ UNCHANGED <<disk, registry, runs>>]_vars

\* C4: at most one loop runs for an operation id at any time.
OneLoopPerOperation ==
    \A op \in DOMAIN disk : Cardinality(LoopsOf(op)) <= 1

\* the background loops that have started and not yet ended
BackgroundLoops ==
    {r \in DOMAIN runs : runs[r].background /\ runs[r].pc \notin {"start", "callback"}}

\* C5: at most 2 background loops execute at the same time.
BackgroundCeiling == Cardinality(BackgroundLoops) <= MAX_BACKGROUND

\* C6: a background trigger arriving while 2 or more operations are tracked as not
\* completed is answered 429 at once and changes nothing: no id, no registry entry,
\* no directory, no status file, no run, no upstream request.
CeilingRejects ==
    [][ActiveOps(registry) >= 2 =>
          \A req \in {q \in AllRequests : q.background} : \A now \in Now :
              clone_raw_database(req, now)
              => /\ lastResp' = Reply(429, "too_many", NoBody)
                 /\ UNCHANGED <<disk, registry, runs, sent, hist>>]_vars

\* C6 witness: a third request was answered 429 while two operations were running
CeilingRejectsWitness ==
    /\ lastResp.code = 429
    /\ ActiveOps(registry) = 2
    /\ Cardinality(DOMAIN disk) = 2
    /\ nreq = 2

\* C7: a trigger without force naming an operation whose persisted status is
\* completed returns the stored result, makes no upstream call and leaves the
\* registry and the operation's status, checkpoint, manifest, objects and events
\* as they are.
StoredResultReturned ==
    [][\A req \in AllRequests : \A now \in Now :
          ( /\ clone_raw_database(req, now)
            /\ ~req.force
            /\ req.operation_id # None
            /\ req.operation_id[1] \in DOMAIN disk
            /\ StatusIs(req.operation_id[1], "completed") )
          => /\ lastResp' = Reply(200, "stored", read_status(disk, req.operation_id[1])[1])
             /\ UNCHANGED <<disk, registry, runs, sent>>]_vars

\* the members of a JSON object, whatever order they are listed in
Members(obj) == {obj[k] : k \in 1..Len(obj)}

Ingested(op) == HistOf(hist, op).ingested

\* C8: releases with the same content share one object file, releases with
\* different content have different keys, no object file is created twice, and the
\* store holds as many objects as distinct contents were ingested.
Dedup ==
    \A op \in DOMAIN disk :
        /\ DOMAIN disk[op].objects = {HashOf[rel] : rel \in Ingested(op)}
        /\ \A r1, r2 \in Ingested(op) :
              Members(r1) = Members(r2) <=> HashOf[r1] = HashOf[r2]
        /\ Cardinality(DOMAIN disk[op].objects)
              = Cardinality({Members(rel) : rel \in Ingested(op)})
        /\ \A h \in DOMAIN disk[op].objects : TimesWritten(op, h) = 1

\* C8 witness: the same content arrived twice, in two member orders and on two
\* pages, beside the same identifier with other content; three objects for four
\* releases, after a crash and a resume
DedupWitness ==
    \E op \in DOMAIN disk :
        /\ {RelA, RelA2, RelB, RelC} \subseteq Ingested(op)
        /\ Cardinality(DOMAIN disk[op].objects) = 3
        /\ ncrash >= 1

\* the releases of all pages of the upstream chain
UpstreamReleases ==
    UNION { {upstream[p].releases[k] : k \in 1..Len(upstream[p].releases)} :
               p \in 1..Len(upstream) }

\* C9: an operation only ever run unlimited that reached terminal success, through
\* whatever crashes, failures and resumes, holds exactly one object for every
\* release of every page of the upstream chain, created once, and nothing else.
ExactlyOnceIngestion ==
    \A op \in DOMAIN disk :
        ( /\ StatusIs(op, "completed")
          /\ disk[op].manifest # None
          /\ HistOf(hist, op).totals = {-1} )
        => /\ \A rel \in UpstreamReleases :
                 LET h == HashOf[rel]
                 IN  /\ ObjectExists(disk, op, h)
                     /\ Members(disk[op].objects[h]) = Members(rel)
                     /\ TimesWritten(op, h) = 1
           /\ Cardinality(DOMAIN disk[op].objects)
                 = Cardinality({Members(rel) : rel \in UpstreamReleases})

\* C9 witness: terminal success of a three page chain after a crash in mid page
\* and a failed fetch
ExactlyOnceIngestionWitness ==
    \E op \in DOMAIN disk :
        /\ StatusIs(op, "completed")
        /\ disk[op].manifest # None
        /\ HistOf(hist, op).totals = {-1}
        /\ HistOf(hist, op).dirty
        /\ ncrash >= 1
        /\ nfail >= 1
        /\ Len(upstream) = 3

\* C10: once fixed_updated_to has a value in an operation, every later upstream
\* request of the operation carries that value as updatedTo.
FrozenUpdatedTo ==
    \A op \in DOMAIN sent :
        sent[op].later => sent[op].updatedTo = frozen[op]

\* s is an initial part of t
IsPrefix(s, t) == Len(s) <= Len(t) /\ SubSeq(t, 1, Len(s)) = s

\* C11: the event log of an operation only grows at its end: every step leaves the
\* log it found as a prefix of the log it leaves, and a step that touches the log
\* adds exactly one line.
EventLogMonotonic ==
    [][\A op \in DOMAIN disk :
          /\ IsPrefix(EventLog(disk, op), EventLog(disk', op))
          /\ disk'[op].events # disk[op].events
                => Len(EventLog(disk', op)) = Len(EventLog(disk, op)) + 1]_vars

\* each part file on its own only grows at its end, which the code satisfies
PartsAppendOnly ==
    [][\A op \in DOMAIN disk : \A p \in 1..Len(disk[op].events) :
          /\ p <= Len(disk'[op].events)
          /\ IsPrefix(disk[op].events[p], disk'[op].events[p])]_vars

\* the operation has had one run only, which neither failed nor was killed
FirstRun(op) == ~HistOf(hist, op).dirty /\ ~HistOf(hist, op).killed

RECURSIVE TotalReleases(_)
TotalReleases(chain) ==
    IF chain = <<>> THEN 0 ELSE Len(Head(chain).releases) + TotalReleases(Tail(chain))

AllPagesNonEmpty(chain) == \A p \in 1..Len(chain) : chain[p].releases # <<>>

\* C12: an unlimited run from an empty store over k non-empty pages, the last one
\* without cursor, returns pages = k, received_raw = the number of releases of all
\* pages, events_written = received_raw and objects_written <= received_raw.
UnlimitedResultCounts ==
    ( /\ lastResp.kind = "result"
      /\ HistOf(hist, lastResp.body.operation_id).totals = {-1}
      /\ FirstRun(lastResp.body.operation_id)
      /\ AllPagesNonEmpty(upstream) )
    => /\ lastResp.body.status = "success"
       /\ lastResp.body.pages = Len(upstream)
       /\ lastResp.body.received_raw = TotalReleases(upstream)
       /\ lastResp.body.events_written = lastResp.body.received_raw
       /\ lastResp.body.objects_written <= lastResp.body.received_raw

\* C12 witness: three pages of 2, 2 and 1 releases, one content met twice
UnlimitedResultCountsWitness ==
    /\ lastResp.kind = "result"
    /\ HistOf(hist, lastResp.body.operation_id).totals = {-1}
    /\ FirstRun(lastResp.body.operation_id)
    /\ Len(upstream) = 3
    /\ lastResp.body.received_raw = 5
    /\ lastResp.body.objects_written = 4

\* the release a frame is working on
CurrentRelease(f) == f.page_releases[f.i]

\* C13: when the content hash of a release is already in the object store, the
\* step that handles its object leaves objects_written and the store as they are,
\* and the step that follows appends exactly one event, for that release, and adds
\* one to events_written.
KnownObjectStillLogged ==
    [][\A r \in DOMAIN runs \cap DOMAIN runs' :
          LET f  == runs[r]
              g  == runs'[r]
              op == f.op
          IN  /\ ( /\ f.pc = "obj" /\ g.pc = "evt"
                   /\ ObjectExists(disk, op, HashOf[CurrentRelease(f)]) )
                 => /\ g.objects_written = f.objects_written
                    /\ disk'[op].objects = disk[op].objects
                    /\ disk'[op].writes = disk[op].writes
              /\ ( f.pc = "evt" /\ g.pc # "evt" )
                 => /\ g.events_written = f.events_written + 1
                    /\ Len(EventLog(disk', op)) = Len(EventLog(disk, op)) + 1
                    /\ \E p \in 1..Len(disk'[op].events) :
                          /\ disk'[op].events[p] # <<>>
                          /\ p <= Len(disk[op].events)
                                => disk'[op].events[p] # disk[op].events[p]
                          /\ LET part == disk'[op].events[p]
                             IN  part[Len(part)].content_hash = HashOf[CurrentRelease(f)]]_vars

\* C13 witness: after a crash, a run has found the object of its release in the
\* store, left by an earlier run, and is about to append the event
KnownObjectStillLoggedWitness ==
    \E r \in DOMAIN runs :
        /\ runs[r].pc = "evt"
        /\ ncrash >= 1
        /\ runs[r].objects_written = 0
        /\ runs[r].events_written >= 1
        /\ \E k \in 1..Len(EventLog(disk, runs[r].op)) :
              EventLog(disk, runs[r].op)[k].content_hash = HashOf[CurrentRelease(runs[r])]

\* the run has raised inside the try block of line 375
Raised(f) == f.error # NoneStr

FailedIsPersisted ==
    \A op \in DOMAIN registry :
        registry[op].status = "failed" =>
            /\ StatusIs(op, "failed")
            /\ read_status(disk, op)[1].error # NoneStr

\* status.json of op exists
StatusFileExists(op) == op \in DOMAIN disk /\ read_status(disk, op) # None

\* C16: a poll for an id returns status.json when the file exists, else the
\* registry record when the id is tracked, else 404, and changes neither the
\* registry nor any file.
PollPrefersDisk ==
    [][\A op \in PollIds :
          StatusPoll(op) =>
             /\ UNCHANGED <<registry, disk, runs>>
             /\ StatusFileExists(op) =>
                    lastResp' = Reply(200, "status", read_status(disk, op)[1])
             /\ (~StatusFileExists(op) /\ op \in DOMAIN registry) =>
                    lastResp' = Reply(200, "status", registry[op])
             /\ (~StatusFileExists(op) /\ op \notin DOMAIN registry) =>
                    lastResp'.code = 404]_vars

\* C16 witness: a poll was answered from the registry, with the status running of
\* an operation that has a directory but no status.json
PollPrefersDiskWitness ==
    /\ lastResp.kind = "status"
    /\ \E op \in DOMAIN registry :
          /\ op \in DOMAIN disk
          /\ ~StatusFileExists(op)
          /\ lastResp.body = registry[op]

\* a poll was answered from the file though the registry holds another record
PollFromFileWitness ==
    /\ lastResp.kind = "status"
    /\ \E op \in DOMAIN registry :
          /\ StatusFileExists(op)
          /\ lastResp.body = read_status(disk, op)[1]
          /\ lastResp.body # registry[op]

\* the page fetch of frame f has ended
FetchEnded(f) == f.fetch.kind \notin {"none", "pending"}

\* the request budget of a page fetch: at most HTTP_MAX_ATTEMPTS requests, none
\* after the response that ends the fetch, and no wait for a seventh response
RequestBudget ==
    \A r \in DOMAIN runs :
       LET f == runs[r]
       IN  /\ f.gets <= HTTP_MAX_ATTEMPTS
           /\ f.pc = "await" => f.attempt < HTTP_MAX_ATTEMPTS /\ f.gets = f.attempt + 1
           /\ f.fetch.kind = "returned" => f.gets = f.attempt + 1

\* a further request follows only a retryable status or a transport error
RetryOnlyWhenRetryable ==
    [][\A r \in DOMAIN runs \cap DOMAIN runs' :
          (runs[r].pc = "await" /\ runs'[r].gets > runs[r].gets) =>
             \/ GetRequestError(r)
             \/ \E status \in {429, 502, 503, 504} : \E text \in ErrorTexts :
                   \E retry_after \in {ra \in RetryAfterValues :
                                          _compute_backoff(runs[r].attempt, ra).value
                                             = runs'[r].wait} :
                      GetErrorStatus(r, status, retry_after, text)]_vars

\* C17: one page fetch issues at most 6 requests, and when the 6 requests all met
\* a retryable status or a transport error the fetch ends by raising the
\* upstream-unavailable-after-retries error.
ExhaustedRaisesUnavailable ==
    /\ RequestBudget
    /\ \A r \in DOMAIN runs :
          LET f == runs[r]
          IN  (/\ FetchEnded(f)
               /\ f.gets = HTTP_MAX_ATTEMPTS
               /\ f.fetch.status \in {0, 429, 502, 503, 504}) =>
                 f.fetch.kind \in {"exceeded retries", "Network error after retries"}

\* six requests that all failed, and the fetch did end with the error of line 200
ExhaustedWitness ==
    \E r \in DOMAIN runs :
       /\ runs[r].gets = HTTP_MAX_ATTEMPTS
       /\ runs[r].sleeps = HTTP_MAX_ATTEMPTS
       /\ runs[r].fetch.kind = "exceeded retries"

\* C18: a response with a non-retryable error status ends the fetch at once with
\* the upstream-rejected error that carries the status and the body, with no
\* further request and no backoff sleep, at every attempt index.
RejectedAtOnce ==
    \A r \in DOMAIN runs :
       LET f == runs[r]
       IN  f.fetch.status \in ErrorStatuses \ {429, 502, 503, 504} =>
              /\ f.pc = "except"
              /\ f.error = "HTTPException"
              /\ f.fetch.kind = "FindTender error"
              /\ f.gets = f.attempt + 1
              /\ f.sleeps = f.attempt

\* C18 witness: a 404 with a body answered the fourth request of a fetch, which
\* ended with the upstream-rejected error after three sleeps and four requests
RejectedAtOnceWitness ==
    \E r \in DOMAIN runs :
       /\ runs[r].pc = "except"
       /\ runs[r].fetch = Fetch("FindTender error", 404, "busy")
       /\ runs[r].attempt = 3
       /\ runs[r].gets = 4
       /\ runs[r].sleeps = 3

\* the wait the claim gives for attempt and a Retry-After value that isdigit()
\* accepts (numeric) or not
ClaimedBackoff(attempt, retry_after) ==
    IF isdigit(retry_after)
    THEN Max(1, Min(DecimalOf(retry_after), 30))
    ELSE Min(2 ^ attempt, 30)

\* C19: for every attempt index 0..5 and every Retry-After value the wait is
\* computed, lies between 1 and 30, and is the numeric delay clamped to at most 30
\* when present, else min(2^attempt, 30).
BackoffWithinCap ==
    \A r \in DOMAIN runs :
       /\ runs[r].fetch.kind # "ValueError"
       /\ runs[r].sleeps > 0 => runs[r].wait \in 1..30

\* a header value of ASCII characters only
Ascii(s) == \A k \in 1..Len(s) : s[k] # "^2"

\* for header values of ASCII characters the wait is as C19 says
BackoffWithinCapAscii ==
    /\ \A r \in DOMAIN runs :
          (runs[r].sleeps > 0 /\ runs[r].fetch.kind # "ValueError") => runs[r].wait \in 1..30
    /\ \A attempt \in 0..(HTTP_MAX_ATTEMPTS - 1) :
          \A retry_after \in {s \in RetryAfterValues : Ascii(s)} :
             LET w == _compute_backoff(attempt, retry_after)
             IN  w.ok /\ w.value \in 1..30 /\ w.value = ClaimedBackoff(attempt, retry_after)

\* a fetch slept the capped upstream delay and later a capped exponential one
BackoffAsciiWitness ==
    \E r \in DOMAIN runs :
       /\ runs[r].attempt = HTTP_MAX_ATTEMPTS - 1
       /\ runs[r].wait = 16
       /\ runs[r].pc = "await"

\* C20: save_checkpoint and save_status write a temporary file and rename it over
\* the target, so the target is at every point of a write, for a poll and after
\* the process died, a complete file: the previous content until the rename, the
\* new content after it; load_checkpoint and read_status return a saved value.
AtomicReplace ==
    /\ \A op \in DOMAIN disk : \A name \in {"status", "checkpoint"} :
          disk[op][name] = None \/ Loads(disk[op][name])
    /\ \A r \in DOMAIN runs :
          LET f == runs[r]
          IN  /\ f.io # "none" => disk[f.op][Target(f)] = f.old
              /\ (f.pc = "stat" /\ f.io = "none") =>
                    load_checkpoint(disk, f.op) = Some(Checkpoint(f))
    /\ lastResp.kind # "internal_error"

\* C20 witness: the process died inside a checkpoint write that had a previous
\* checkpoint to replace; the torn temporary file is still there, and the loop
\* that resumed holds the values of the previous checkpoint
AtomicReplaceWitness ==
    /\ ncrash = 1
    /\ \E r \in DOMAIN runs :
          LET f  == runs[r]
              cp == load_checkpoint(disk, f.op)
          IN  /\ f.pc = "await"
              /\ disk[f.op].checkpoint_tmp # None
              /\ ~Loads(disk[f.op].checkpoint_tmp)
              /\ cp # None
              /\ disk[f.op].checkpoint_tmp[1].pages = cp[1].pages + 1
              /\ f.cursor = cp[1].cursor
              /\ f.pages = cp[1].pages

\* a poll read status.json between the two statements that write and rename the
\* temporary file, and was answered with the previous status
PollDuringWriteWitness ==
    /\ lastResp.kind = "status"
    /\ \E r \in DOMAIN runs :
          /\ runs[r].pc = "stat"
          /\ runs[r].io = "dumped"
          /\ lastResp.body = runs[r].old[1]
          /\ lastResp.body # disk[runs[r].op].status_tmp[1]

\* the hash of the object the frame is writing
CurrentHash(f) == HashOf[f.page_releases[f.i]]

\* C21: a call of write_object_if_missing returns true iff it created the object
\* file; when the object exists, also when it appeared between the two checks,
\* the call returns false and leaves the store as it is; an object file, once
\* there, stays with its content, whatever the step.
WriteIfMissingContract ==
    [][/\ \A r \in DOMAIN runs \cap DOMAIN runs' :
             (runs[r].pc \in {"obj", "obj_lock"} /\ runs'[r].pc = "evt") =>
                LET f        == runs[r]
                    returned == runs'[r].objects_written = f.objects_written + 1
                    created  == /\ CurrentHash(f) \notin DOMAIN disk[f.op].objects
                                /\ CurrentHash(f) \in DOMAIN disk'[f.op].objects
                IN  /\ returned <=> created
                    /\ ~returned => runs'[r].objects_written = f.objects_written
                    /\ CurrentHash(f) \in DOMAIN disk[f.op].objects => disk' = disk
       /\ \A op \in DOMAIN disk : \A h \in DOMAIN disk[op].objects :
             /\ op \in DOMAIN disk'
             /\ h \in DOMAIN disk'[op].objects
             /\ disk'[op].objects[h] = disk[op].objects[h]]_vars

\* C21 witness: the object was missing at the first check of a call and there at
\* the check under the lock; the call wrote nothing and the loop did not count it
WriteIfMissingWitness ==
    \E r \in DOMAIN runs :
       /\ runs[r].pc = "evt"
       /\ runs[r].raced
       /\ runs[r].objects_written = 0
       /\ CurrentHash(runs[r]) \in DOMAIN disk[runs[r].op].objects
       /\ TimesWritten(runs[r].op, CurrentHash(runs[r])) = 1

\* C22: finalize_manifest is called once per operation, at terminal success: not
\* while a run of the operation is still paging, and not when the operation has
\* a manifest already.
ManifestWrittenOnce ==
    [][\A r \in DOMAIN runs :
          FinalizeManifest(r) =>
             /\ disk[runs[r].op].manifest = None
             /\ LoopsOf(runs[r].op) = {r}]_vars

\* with one caller at a time that never forces, the manifest is written once
ManifestWrittenOnceUnforced ==
    [][\A r \in DOMAIN runs :
          (FinalizeManifest(r) /\ ~HistOf(hist, runs[r].op).dirty) =>
             /\ disk[runs[r].op].manifest = None
             /\ LoopsOf(runs[r].op) = {r}]_vars

\* the most recent run of op ended in success: status.json says completed
LastRunSucceeded(op) == StatusIs(op, "completed")

\* C23: in every state in which the manifest of an operation exists, no run of
\* the operation is in the paging loop and its most recent run ended in success.
ManifestMeansDone ==
    \A op \in DOMAIN disk :
       disk[op].manifest # None =>
          /\ \A r \in RunsOf(op) : runs[r].pc \in {"final", "callback"}
          /\ (RunsOf(op) = {}) => LastRunSucceeded(op)

\* the manifest exists and the operation is done: what C23 expects everywhere
ManifestAndDone ==
    \E op \in DOMAIN disk :
       disk[op].manifest # None /\ RunsOf(op) = {} /\ LastRunSucceeded(op)

\* C24: once the registry entry of an operation has completed = true, no trigger,
\* run or done callback changes the entry (the registry of a process that died
\* is gone, which is no change of an entry).
CompletedEntryImmutable ==
    [][\A op \in DOMAIN registry \cap DOMAIN registry' :
          registry[op].completed => registry'[op] = registry[op]]_vars

\* C25: the terminal outcome of a background run is written into the registry
\* once, as one transition of the entry from running to completed or to failed
\* with the error; the done callback of a task that raised leaves the entry
\* failed and completed and finds the outcome written.
BackgroundOutcomeOnce ==
    [][\A r \in DOMAIN runs :
          runs[r].background =>
             /\ (Complete(r) \/ Fail(r)) => registry[runs[r].op].status = "running"
             /\ Fail(r) =>
                   /\ registry'[runs[r].op].status = "failed"
                   /\ registry'[runs[r].op].completed
                   /\ registry'[runs[r].op].error # NoneStr
             /\ _handle_background_task_result(r) =>
                   /\ registry[runs[r].op].status = "failed"
                   /\ registry'[runs[r].op].status = "failed"
                   /\ registry'[runs[r].op].completed]_vars

\* a background task raised, its outcome was written and its callback has run
BackgroundOutcomeWitness ==
    /\ runs = Empty
    /\ \E op \in DOMAIN registry :
          /\ registry[op].status = "failed"
          /\ registry[op].completed
          /\ registry[op].error = RaisedDetail("HTTPException")

\* C26: the id generated for a trigger without operation_id is new: no directory
\* and no registry entry bears it, also for requests of one clock second with the
\* same stages and total.
GeneratedIdsUnique ==
    [][\A req \in AllRequests : \A now \in Now :
          ( /\ req.operation_id = None
            /\ ~CeilingHit(registry, req.background)
            /\ clone_raw_database(req, now) )
          => GenerateOperationId(now, req.total) \notin DOMAIN disk \cup DOMAIN registry]_vars

\* fresh requests of different clock seconds get different ids
GeneratedIdsUniqueAcrossSeconds ==
    [][\A req \in AllRequests : \A now \in Now :
          ( /\ req.operation_id = None
            /\ ~CeilingHit(registry, req.background)
            /\ \A op \in DOMAIN disk : op[1] # now
            /\ clone_raw_database(req, now) )
          => GenerateOperationId(now, req.total) \notin DOMAIN disk \cup DOMAIN registry]_vars

\* two operations with generated ids of different seconds exist
TwoGeneratedIds ==
    \E op1 \in DOMAIN disk : \E op2 \in DOMAIN disk : op1[1] # op2[1]

\* C27: for an operation only ever run with one finite total T, the records the
\* operation has processed (processed_total of its runs and of its checkpoint)
\* never exceed T, and neither do the events of its log unless a run died between
\* checkpoints.
QuotaBoundsOperation ==
    \A op \in DOMAIN disk :
       LET h == HistOf(hist, op)
       IN  \A T \in h.totals :
              (h.totals = {T} /\ T > 0) =>
                 /\ \A r \in RunsOf(op) : runs[r].processed_total <= T
                 /\ load_checkpoint(disk, op) # None =>
                       load_checkpoint(disk, op)[1].processed_total <= T
                 /\ ~h.dirty => Len(EventLog(disk, op)) <= T

\* within one run the quota holds
QuotaBoundsFirstRun ==
    \A op \in DOMAIN disk :
       LET h == HistOf(hist, op)
       IN  \A T \in h.totals :
              (h.totals = {T} /\ T > 0 /\ ~h.dirty /\ ~h.killed) =>
                 /\ \A r \in RunsOf(op) : runs[r].processed_total <= T
                 /\ Len(EventLog(disk, op)) <= T

\* a first run with a finite total ended with exactly T records
QuotaFirstRunWitness ==
    \E op \in DOMAIN disk :
       /\ HistOf(hist, op).totals = {3}
       /\ ~HistOf(hist, op).dirty /\ ~HistOf(hist, op).killed
       /\ StatusIs(op, "completed")
       /\ Len(EventLog(disk, op)) = 3

\* the persisted checkpoint counts the pages of frame f
CheckpointedThrough(f) ==
    LET cp == load_checkpoint(disk, f.op)
    IN  /\ cp # None
        /\ cp[1].pages = f.pages
        /\ cp[1].events_written = f.events_written

\* the persisted status counts the pages of frame f
StatusThrough(f) ==
    LET st == read_status(disk, f.op)
    IN  /\ st # None
        /\ "pages" \in DOMAIN st[1]
        /\ st[1].pages = f.pages

\* C28: when a run has left the paging loop, a checkpoint and a status that
\* count every page it processed, the last page of the stream and the page that
\* satisfied the quota included, have been written.
CheckpointAfterEveryPage ==
    \A r \in DOMAIN runs :
       (runs[r].pc \in {"manifest", "final"} /\ runs[r].pages > 0) =>
          CheckpointedThrough(runs[r]) /\ StatusThrough(runs[r])

\* a page that has a next cursor is checkpointed before the next request is made
\* or the loop is left
CheckpointAfterPageWithCursor ==
    \A r \in DOMAIN runs :
       LET f == runs[r]
       IN  (f.pc \in {"await", "manifest", "final"} /\ f.pages > 0 /\ f.cursor # NoCursor) =>
              CheckpointedThrough(f)

\* the page that satisfied the quota was checkpointed before the loop was left
QuotaPageCheckpointed ==
    \E r \in DOMAIN runs :
       /\ runs[r].pc = "manifest"
       /\ runs[r].total = 3
       /\ QuotaSatisfied(runs[r].remaining)
       /\ runs[r].cursor # NoCursor
       /\ CheckpointedThrough(runs[r])
       /\ StatusThrough(runs[r])

\* some record of page p of the upstream is in the event log of op
PageLogged(op, p) ==
    \E k \in 1..Len(EventLog(disk, op)) : EventLog(disk, op)[k].page = p

\* the page a frame that awaits a response has requested
RequestedPage(f) == f.cursor + 1

\* C29: whatever the point a run died at, the run that resumes requests no page
\* the persisted checkpoint covers, requests at most one page of which records
\* are committed already (none is committed beyond the requested page), and, for
\* an operation only ever run unlimited, finds every record of the pages before
\* the requested one in the object store and the event log.
ResumeRefetchesOnePage ==
    \A r \in DOMAIN runs :
       LET f == runs[r]
       IN  f.pc = "await" =>
              /\ disk[f.op].checkpoint # None =>
                    RequestedPage(f) > disk[f.op].checkpoint[1].pages
              /\ \A p \in 1..Len(upstream) : PageLogged(f.op, p) => p <= RequestedPage(f)
              /\ HistOf(hist, f.op).totals = {-1} =>
                    \A p \in 1..Len(upstream) :
                       p < RequestedPage(f) =>
                          \A k \in 1..Len(upstream[p].releases) :
                             /\ ObjectExists(disk, f.op, HashOf[upstream[p].releases[k]])
                             /\ EventFor(f.op, p, upstream[p].releases[k])

\* C29 witness: a run died after it committed the records of the second page and
\* before it persisted the checkpoint; the run that resumed requests that page
ResumeRefetchesOnePageWitness ==
    /\ ncrash >= 1
    /\ \E r \in DOMAIN runs :
          /\ runs[r].pc = "await"
          /\ RequestedPage(runs[r]) = 2
          /\ disk[runs[r].op].checkpoint # None
          /\ disk[runs[r].op].checkpoint[1].pages = 1
          /\ \A k \in 1..Len(upstream[2].releases) :
                EventFor(runs[r].op, 2, upstream[2].releases[k])

\* C30: every upstream request of an operation carries the stages and the
\* updatedFrom of the first request of the operation, whatever values the
\* triggers that resume or force it supply.
FrozenParameters ==
    \A op \in DOMAIN sent :
       /\ sent[op].stages = sent[op].first.stages
       /\ sent[op].updatedFrom = sent[op].first.updatedFrom

\* once checkpoint.json exists, the requests carry the values it holds, and the
\* values it holds never change
FrozenParametersByCheckpoint ==
    [][\A op \in DOMAIN disk :
          disk[op].checkpoint # None =>
             /\ disk'[op].checkpoint # None
             /\ disk'[op].checkpoint[1].fixed_stages = disk[op].checkpoint[1].fixed_stages
             /\ disk'[op].checkpoint[1].fixed_updated_from
                   = disk[op].checkpoint[1].fixed_updated_from
             /\ \A r \in DOMAIN runs' :
                   runs'[r].op = op /\ runs'[r].pc = "await"
                      => /\ sent'[op].stages = disk[op].checkpoint[1].fixed_stages
                         /\ sent'[op].updatedFrom = disk[op].checkpoint[1].fixed_updated_from]_vars

\* a trigger that names other values resumes from a checkpoint and its request
\* carries the values of the checkpoint
CheckpointParametersWitness ==
    \E r \in DOMAIN runs :
       /\ runs[r].pc = "await"
       /\ disk[runs[r].op].checkpoint # None
       /\ runs[r].stages # disk[runs[r].op].checkpoint[1].fixed_stages
       /\ runs[r].updatedFrom # disk[runs[r].op].checkpoint[1].fixed_updated_from
       /\ sent[runs[r].op].stages = disk[runs[r].op].checkpoint[1].fixed_stages
       /\ sent[runs[r].op].stages = sent[runs[r].op].first.stages

\* the step appends to segment p of the event log of op
AppendsTo(op, p) ==
    /\ p <= Len(disk[op].events)
    /\ disk'[op].events[p] # disk[op].events[p]

\* C31: no step appends an event to a segment that holds the threshold already,
\* and the segment written is never one below the highest segment of the
\* operation, in the same run or after a resume.
RotationBeforeWrite ==
    [][\A op \in DOMAIN disk : \A p \in 1..Len(disk[op].events) :
          AppendsTo(op, p) =>
             /\ Len(disk[op].events[p]) < PartMaxLines
             /\ p = Len(disk[op].events)]_vars

\* in the first run of an operation the rotation precedes the write
RotationBeforeWriteFirstRun ==
    [][\A op \in DOMAIN disk : \A p \in 1..Len(disk[op].events) :
          AppendsTo(op, p) /\ FirstRun(op) =>
             /\ Len(disk[op].events[p]) < PartMaxLines
             /\ p = Len(disk[op].events)]_vars

\* a first run has rotated: its second segment holds an event
RotatedFirstRunWitness ==
    \E op \in DOMAIN disk :
       /\ FirstRun(op)
       /\ Len(disk[op].events) >= 2
       /\ Len(disk[op].events[1]) = PartMaxLines

\* C32: the segments read in index order, each in file order, give the events in
\* the order they were appended, for every history of rotations, process deaths
\* and resumes.
SegmentsInAppendOrder ==
    \A op \in DOMAIN disk : EventLog(disk, op) = disk[op].appended

\* the segments of an operation in its first run are in the order of the writes
SegmentsInAppendOrderFirstRun ==
    \A op \in DOMAIN disk : FirstRun(op) => EventLog(disk, op) = disk[op].appended

\* a first run has written three segments
ThreeSegmentsWitness ==
    \E op \in DOMAIN disk :
       /\ FirstRun(op)
       /\ Len(disk[op].events) = 3
       /\ Len(disk[op].appended) = 5

\* the stats of a stored result
ResultStats(result) ==
    [ pages |-> result.pages, received_raw |-> result.received_raw,
      events_written |-> result.events_written,
      objects_written |-> result.objects_written ]

\* C33: in every state, crash points included, a persisted status of completed
\* implies that manifest.json exists and that the stats of the manifest equal
\* those of the stored result.
ManifestBeforeCompleted ==
    \A op \in DOMAIN disk :
       StatusIs(op, "completed") =>
          /\ disk[op].manifest # None
          /\ disk[op].manifest[1].stats = ResultStats(read_status(disk, op)[1].result)

\* with one caller at a time the manifest precedes the completed status and agrees
\* with it, whatever the process deaths, resumes and forced re-runs
ManifestBeforeCompletedSequential ==
    \A op \in DOMAIN disk :
       StatusIs(op, "completed") /\ RunsOf(op) = {} =>
          /\ disk[op].manifest # None
          /\ disk[op].manifest[1].stats = ResultStats(read_status(disk, op)[1].result)

\* an operation completed, was forced to run again after a process death and
\* completed again
CompletedTwiceWitness ==
    \E op \in DOMAIN disk :
       /\ StatusIs(op, "completed")
       /\ HistOf(hist, op).dirty
       /\ ncrash >= 1
       /\ disk[op].manifest # None

\* checkpoint.json of op is absent, does not parse, or is not a checkpoint
NoUsableCheckpoint(op) ==
    \/ load_checkpoint(disk, op) = None
    \/ ~WellFormed(load_checkpoint(disk, op)[1])

\* the frame starts from scratch and has sent its first request
FromScratch(f) ==
    /\ f.pc = "await"
    /\ f.cursor = NoCursor
    /\ f.pages = 0 /\ f.received_raw = 0 /\ f.events_written = 0
    /\ f.objects_written = 0 /\ f.processed_total = 0

\* C34: a run that finds checkpoint.json absent, unparseable or holding a text that
\* is not a checkpoint does not raise: it leaves its first statements with the
\* cursor none and all counters zero and requests the first page.
LoadNeverBlocks ==
    [][\A r \in DOMAIN runs :
          /\ runs[r].pc = "start"
          /\ NoUsableCheckpoint(runs[r].op)
          /\ ncrash' = ncrash
          /\ (r \notin DOMAIN runs' \/ runs'[r] # runs[r])
          => r \in DOMAIN runs' /\ FromScratch(runs'[r])]_vars

\* a file that is absent, or that json.load rejects, is a fresh start
LoadFallsBack ==
    [][\A r \in DOMAIN runs :
          /\ runs[r].pc = "start"
          /\ load_checkpoint(disk, runs[r].op) = None
          /\ ncrash' = ncrash
          /\ (r \notin DOMAIN runs' \/ runs'[r] # runs[r])
          => r \in DOMAIN runs' /\ FromScratch(runs'[r])]_vars

\* a run started from scratch on a checkpoint file that does not parse
LoadFallsBackWitness ==
    \E r \in DOMAIN runs :
       /\ FromScratch(runs[r])
       /\ disk[runs[r].op].checkpoint # None
       /\ ~Loads(disk[runs[r].op].checkpoint)

\* a loop is between its first and its last statement
SomeLoopRuns == \E r \in DOMAIN runs : runs[r].pc # "callback"

\* status.json of op is terminal: completed next to a manifest, or failed
TerminalOnDisk(op) ==
    \/ StatusIs(op, "completed") /\ disk[op].manifest # None
    \/ StatusIs(op, "failed")

\* no loop is left and every operation is terminal on disk
AllSettled == ~SomeLoopRuns /\ \A op \in DOMAIN disk : TerminalOnDisk(op)

CountsMatchStore(op) ==
    /\ disk[op].manifest[1].stats.objects_written = Cardinality(DOMAIN disk[op].objects)
    /\ disk[op].manifest[1].stats.events_written = Len(EventLog(disk, op))

\* C36: when an operation has ended in success, whatever process deaths, failures
\* and resumes it went through, the objects_written of its manifest is the number
\* of object files in its store and the events_written the number of lines in its
\* event log.
ManifestCountsStore ==
    \A op \in DOMAIN disk : LastRunSucceeded(op) => CountsMatchStore(op)

\* the counts match when every earlier run of the operation died right after a
\* checkpoint was persisted, or when there was none
ManifestCountsStoreClean ==
    \A op \in DOMAIN disk :
       LastRunSucceeded(op) /\ ~HistOf(hist, op).dirty => CountsMatchStore(op)

\* an unlimited operation ended in success after a run that died at a checkpoint
ManifestCountsStoreWitness ==
    \E op \in DOMAIN disk :
       /\ LastRunSucceeded(op)
       /\ ~HistOf(hist, op).dirty
       /\ HistOf(hist, op).killed
       /\ Len(EventLog(disk, op)) = 5

\* C37: a trigger is answered 429 exactly when it asks for a background run while
\* 2 or more registry entries are not completed, whatever kind of run they stand
\* for; a synchronous trigger is never answered 429.
CeilingCountsAllKinds ==
    [][\A req \in FreshRequests : \A now \in Now :
          clone_raw_database(req, now)
          => ( lastResp'.code = 429
                 <=> req.background /\ ActiveOps(registry) >= MAX_BACKGROUND )]_vars

\* C37 witness: a background trigger was answered 429 while the two operations
\* tracked as not completed were synchronous runs
CeilingCountsSyncWitness ==
    /\ lastResp.code = 429
    /\ ActiveOps(registry) = 2
    /\ Cardinality(DOMAIN runs) = 2
    /\ \A r \in DOMAIN runs : ~runs[r].background

\* a synchronous trigger was accepted while two operations were not completed
SyncAcceptedAboveCeiling ==
    /\ ActiveOps(registry) = 3
    /\ \E r \in DOMAIN runs : ~runs[r].background /\ runs[r].pc = "start"

\* the counters a have not fallen below the counters b
NotBelow(a, b) ==
    /\ a.pages >= b.pages
    /\ a.received_raw >= b.received_raw
    /\ a.events_written >= b.events_written

\* the frame holds the cursor and the counters of the checkpoint cp
StartsFrom(f, cp) ==
    /\ f.cursor = cp.cursor /\ f.pages = cp.pages
    /\ f.received_raw = cp.received_raw /\ f.events_written = cp.events_written
    /\ f.objects_written = cp.objects_written /\ f.processed_total = cp.processed_total

\* C38: a forced run of a completed operation starts from the cursor and the
\* counters of the persisted checkpoint, and the manifest it writes over the old
\* one has pages, received_raw and events_written not below those of the stored
\* result.
ForcedRerunNotBelow ==
    [][\A r \in DOMAIN runs :
          LET op == runs[r].op
          IN  /\ ( /\ Start(r)
                   /\ disk[op].manifest # None
                   /\ disk[op].checkpoint # None )
                 => StartsFrom(runs'[r], disk[op].checkpoint[1])
              /\ ( /\ FinalizeManifest(r)
                   /\ disk[op].manifest # None )
                 => NotBelow(disk'[op].manifest[1].stats, disk[op].manifest[1].stats)]_vars

\* C38 for forced runs that ask for the total the operation was created with
ForcedRerunNotBelowSameTotal ==
    [][\A r \in DOMAIN runs :
          LET op == runs[r].op
          IN  /\ ( /\ Start(r)
                   /\ disk[op].manifest # None
                   /\ disk[op].checkpoint # None )
                 => StartsFrom(runs'[r], disk[op].checkpoint[1])
              /\ ( /\ FinalizeManifest(r)
                   /\ disk[op].manifest # None
                   /\ Cardinality(HistOf(hist, op).totals) = 1 )
                 => NotBelow(disk'[op].manifest[1].stats, disk[op].manifest[1].stats)]_vars

\* a forced run of a completed three-page operation started from its checkpoint
\* and completed
ForcedRerunWitness ==
    \E op \in DOMAIN disk :
       /\ StatusIs(op, "completed")
       /\ HistOf(hist, op).dirty
       /\ Cardinality(HistOf(hist, op).totals) = 1
       /\ disk[op].checkpoint # None
       /\ disk[op].manifest[1].stats.pages = 3

\* C39: a run asked for a total of 0 or -1 has no quota: remaining is infinite, it
\* takes every record of every page, processed_total stays as it was, and it
\* leaves the loop only on an empty page or on a page without next cursor.
NonPositiveIsUnlimited ==
    \A r \in DOMAIN runs :
       LET f == runs[r]
       IN  f.total <= 0 /\ f.pc # "start" =>
              /\ f.remaining = Inf
              /\ f.processed_total = 0
              /\ f.pc \in {"obj", "evt", "ckpt", "stat"}
                    => f.page_releases = f.data[1].releases
              /\ f.pc \in {"manifest", "final"}
                    => /\ f.data # None
                       /\ \/ f.data[1].releases = <<>>
                          \/ NextCursor(f.data[1]) = NoCursor

\* C39 witness: a run asked for total 0 took the five records of three pages
ZeroTotalWitness ==
    \E r \in DOMAIN runs :
       /\ runs[r].total = 0
       /\ runs[r].pc = "final"
       /\ runs[r].pages = 3
       /\ runs[r].events_written = 5
====
